---------------------------- MODULE Spec2Model ----------------------------
(***************************************************************************)
(* Job-execution subsystem of agentic-batch-processing: one job, its work  *)
(* units, the detached executor with its worker pool, the orchestrator's   *)
(* test phase and the process controls.  The repository (SQLite) is the    *)
(* shared state; every repository call is one atomic step, and the objects *)
(* a thread or process read from it are kept as local copies, because      *)
(* update_job and update_work_unit write a whole row back from the copy.   *)
(* The worker threads and the dispatch loop are interleaved call by call.   *)
(* start_job, kill_executor and restart_work_unit are each taken as one    *)
(* step; resume_job and kill_work_unit are modelled both as one step and,  *)
(* for concurrent host processes, call by call.                            *)
(***************************************************************************)
EXTENDS Integers, Sequences, FiniteSets, TLC

\* ------------------------------------------------------------------ bounds
NumUnits == 2
MaxWorkersBound == 2
MaxRetriesBound == 1
MaxExecutors == 2
MaxCrashes == 1
MaxUnitKills == 1
MaxRestarts == 1
MaxTests == 2
MaxPostUnits == 1
MaxExecKills == 1
MaxHosts == 2
MaxCalls == 2
MaxJobs == 2
MaxRows == 2
MaxRepeat == 2
MaxPendingRows == 3
MaxTime == 3
MaxEvents == 3

\* signal.SIGKILL; a process ended by signal n has exit code -n
SIGKILL == 9

\* None in a worker_id, process_id, executor_pid or unit-id column
NULL == 0

\* job.metadata.get("max_retries", 3) of the post-processing unit
PostMaxRetries == 3

\* ------------------------------------------------------------------ state
VARIABLES
    cfg,            \* the scenario: job parameters given to create_job, the mock driver
    job,            \* the jobs row
    units,          \* the work_units rows, in created_at order (a sequence)
    exec,           \* the executor process: its main thread
    active_workers, \* WorkerPool.active_workers: slot -> the worker thread's state
    orch,           \* a host process inside Orchestrator._run_test_phase
    procs,          \* live agent subprocesses, <<unit_id, pid>>
    invocations,    \* the driver: how often it was invoked, per unit
    ops,            \* how often each external operation or fault happened
    fs,             \* inputs and result of a _determine_final_status evaluation
    hosts,          \* host processes inside a control call, and executors they started
                    \* while another executor was alive
    db              \* a database of several jobs, for repository calls taken alone:
                    \* its work_units and workers tables and what the last call returned

vars == <<cfg, job, units, exec, active_workers, orch, procs, invocations, ops, fs, hosts,
          db>>

\* ------------------------------------------------------------------ models.py
\* WorkUnit as stored; a timestamp or text field is TRUE when it is set.
NewWorkUnit(id, type, maxr) ==
    [unit_id |-> id, unit_type |-> type, status |-> "pending",
     assigned_at |-> FALSE, started_at |-> FALSE, completed_at |-> FALSE,
     worker_id |-> NULL, result |-> FALSE, error |-> FALSE,
     retry_count |-> 0, max_retries |-> maxr,
     execution_time_seconds |-> FALSE, output_files |-> FALSE,
     rendered_prompt |-> FALSE, conversation |-> FALSE, session_id |-> FALSE,
     cost_usd |-> FALSE, process_id |-> NULL]

NoUnit == NewWorkUnit(0, "none", 0)

can_retry(unit) == unit.retry_count < unit.max_retries

NewJob(total, maxw, prompt) ==
    [status |-> "created", total_units |-> total, completed_units |-> 0,
     failed_units |-> 0, max_workers |-> maxw, started_at |-> FALSE,
     completed_at |-> FALSE, test_unit_id |-> NULL, test_passed |-> FALSE,
     post_processing_prompt |-> prompt, post_processing_unit_id |-> NULL,
     bypass_failures |-> FALSE, executor_pid |-> NULL, killed_at |-> FALSE,
     executor_completed_at |-> FALSE, executor_error |-> FALSE]

\* ------------------------------------------------------------------ repository.py
\* update_job: every column but total_units and max_workers is written from the object.
update_job(row, obj) ==
    [obj EXCEPT !.total_units = row.total_units, !.max_workers = row.max_workers]

\* update_work_unit: every column but unit_type and max_retries is written from the
\* object; a unit_id that names no row changes nothing.
update_work_unit(rows, obj) ==
    IF obj.unit_id \in DOMAIN rows
    THEN [rows EXCEPT ![obj.unit_id] =
            [obj EXCEPT !.unit_type = rows[obj.unit_id].unit_type,
                        !.max_retries = rows[obj.unit_id].max_retries]]
    ELSE rows

set_work_unit_process_id(rows, id, pid) ==
    IF id \in DOMAIN rows THEN [rows EXCEPT ![id].process_id = pid] ELSE rows

RECURSIVE SelectPending(_, _)
SelectPending(rows, i) ==
    IF i > Len(rows) THEN <<>>
    ELSE IF rows[i].status = "pending"
         THEN <<rows[i]>> \o SelectPending(rows, i + 1)
         ELSE SelectPending(rows, i + 1)

\* get_pending_units: the pending rows by created_at, at most `limit` of them.
get_pending_units(rows, limit) ==
    LET all == SelectPending(rows, 1)
    IN  IF Len(all) <= limit THEN all ELSE SubSeq(all, 1, limit)

reset_stuck_units(rows) ==
    [i \in DOMAIN rows |->
        IF rows[i].status \in {"assigned", "processing"}
        THEN [rows[i] EXCEPT !.status = "pending", !.worker_id = NULL,
                             !.assigned_at = FALSE, !.started_at = FALSE]
        ELSE rows[i]]

\* ------------------------------------------------------------------ job_executor.py
\* _determine_final_status with the bypass_failures row left out
determine_final_status_without_bypass(completed, failed, total, bypass, prompt, post_status) ==
    IF post_status = "failed" THEN "failed"
    ELSE IF completed = total /\ (~prompt \/ post_status = "completed") THEN "completed"
    ELSE IF failed > 0 /\ (completed + failed) = total THEN "failed"
    ELSE "paused"

\* _determine_final_status; post_status is "none" when there is no post-processing unit.
determine_final_status(completed, failed, total, bypass, prompt, post_status) ==
    LET all_units_done == (completed + failed) = total
        all_succeeded == completed = total
        post_processing_failed == post_status = "failed"
        post_processing_succeeded == post_status = "completed"
    IN  IF post_processing_failed THEN "failed"
        ELSE IF all_succeeded /\ (~prompt \/ post_processing_succeeded) THEN "completed"
        ELSE IF bypass /\ post_processing_succeeded THEN "completed"
        ELSE IF failed > 0 /\ all_units_done THEN "failed"
        ELSE "paused"

NoJob == NewJob(0, 0, FALSE)

Slots == 1..MaxWorkersBound

FreeSlot == [pc |-> "free", work_unit |-> NoUnit, job |-> NoJob, success |-> FALSE]

ActiveSlots == {s \in Slots : active_workers[s].pc # "free"}

\* WorkerPool.get_active_worker_count
get_active_worker_count == Cardinality(ActiveSlots)

LowestFreeSlot == CHOOSE s \in Slots \ ActiveSlots : \A t \in Slots \ ActiveSlots : s <= t

\* os.kill(pid, 0) on the executor's recorded pid
ExecutorRunning(pid) == (exec.alive /\ exec.pid = pid) \/ pid \in hosts.executors

\* The mock driver: whether its n-th invocation for a unit may succeed.
Outcomes(n) ==
    CASE cfg.driver = "ok" -> {TRUE}
      [] cfg.driver = "fail" -> {FALSE}
      [] cfg.driver = "fail_first" -> {n > 1}
      [] OTHER -> BOOLEAN

\* The driver on a unit whose subprocess is alive.  "post_ok" succeeds on the
\* post-processing unit and may fail or succeed on any other.  With "hang" the subprocess
\* neither writes nor exits: the read loop over its stdout (claude_cli_worker.py
\* lines 183-211) does not end, process.wait(timeout) after it is not reached, and the
\* driver has no outcome.
DriverOutcomes(work_unit) ==
    CASE cfg.driver = "post_ok" ->
              IF work_unit.unit_type = "post_processing" THEN {TRUE} ELSE BOOLEAN
      [] cfg.driver = "hang" -> {}
      [] OTHER -> Outcomes(work_unit.process_id)

\* JobExecutor.start_detached: the child process starts at _run_job_loop and the
\* parent records its pid in the job's metadata.
start_detached(row) ==
    /\ exec' = [alive |-> TRUE, pid |-> ops.spawns + 1, pc |-> "recover",
                job |-> NoJob, pending_units |-> <<>>, should_stop |-> FALSE,
                raised |-> FALSE, exitcode |-> <<>>]
    /\ job' = update_job(job, [row EXCEPT !.executor_pid = ops.spawns + 1])
    /\ ops' = [ops EXCEPT !.spawns = @ + 1]

\* stop_executor (lines 415-439) on a live executor whose handler is installed: SIGTERM
\* makes signal_handler (lines 101-103) set should_stop
StopExecutor ==
    /\ exec.alive /\ job.executor_pid = exec.pid
    /\ ~exec.should_stop
    /\ exec' = [exec EXCEPT !.should_stop = TRUE]
    /\ UNCHANGED <<db, hosts, cfg, job, units, active_workers, orch, procs, invocations,
                   ops, fs>>

\* _run_job_loop, lines 109-125: recovery, then the job is set running.
ExRecover ==
    /\ exec.alive /\ exec.pc = "recover"
    /\ LET j == [job EXCEPT !.status = "running", !.started_at = TRUE]
       IN  /\ units' = reset_stuck_units(units)
           /\ job' = update_job(job, j)
           /\ exec' = [exec EXCEPT !.pc = "fetch", !.job = j]
    /\ UNCHANGED <<db, hosts, cfg, active_workers, orch, procs, invocations, ops, fs>>

\* the dispatch loop, lines 143-145: left once should_stop is set
ExFetch ==
    /\ exec.alive /\ exec.pc = "fetch"
    /\ LET pending_units == get_pending_units(units, exec.job.max_workers)
       IN  exec' = IF exec.should_stop
                   THEN [exec EXCEPT !.pending_units = <<>>, !.pc = "drain"]
                   ELSE [exec EXCEPT !.pending_units = pending_units,
                            !.pc = IF pending_units = <<>> THEN "check_active"
                                   ELSE "submit"]
    /\ UNCHANGED <<db, hosts, cfg, job, units, active_workers, orch, procs, invocations, ops, fs>>

\* the dispatch loop, lines 147-154
ExCheckActive ==
    /\ exec.alive /\ exec.pc = "check_active"
    /\ exec' = [exec EXCEPT !.pc = IF get_active_worker_count = 0 THEN "drain" ELSE "fetch"]
    /\ UNCHANGED <<db, hosts, cfg, job, units, active_workers, orch, procs, invocations, ops, fs>>

\* WorkerPool.submit_work_unit, after wait_for_available_slot returned true
submit_work_unit(rows, work_unit, slot) ==
    LET assigned == [work_unit EXCEPT !.status = "assigned", !.worker_id = slot,
                                      !.assigned_at = TRUE]
    IN  /\ units' = update_work_unit(rows, assigned)
        /\ active_workers' = [active_workers EXCEPT ![slot] =
                [pc |-> "assigned", work_unit |-> assigned, job |-> NoJob,
                 success |-> FALSE]]

\* the dispatch loop, lines 156-171: with should_stop set the for loop breaks, before or
\* while it waits for a slot, and the while loop ends
ExSubmit ==
    /\ exec.alive /\ exec.pc = "submit"
    /\ IF exec.should_stop
       THEN /\ exec' = [exec EXCEPT !.pending_units = <<>>, !.pc = "drain"]
            /\ UNCHANGED <<units, active_workers>>
       ELSE /\ get_active_worker_count < exec.job.max_workers
            /\ submit_work_unit(units, Head(exec.pending_units), LowestFreeSlot)
            /\ exec' = [exec EXCEPT !.pending_units = Tail(@),
                           !.pc = IF Tail(exec.pending_units) = <<>> THEN "fetch"
                                  ELSE "submit"]
    /\ UNCHANGED <<db, hosts, cfg, job, orch, procs, invocations, ops, fs>>

should_run_post_processing(j) ==
    /\ j.post_processing_prompt
    /\ \/ j.completed_units = j.total_units
       \/ j.bypass_failures /\ (j.completed_units + j.failed_units) = j.total_units

\* lines 173-194 with _run_post_processing up to its submit (lines 318-358)
ExDrain ==
    /\ exec.alive /\ exec.pc = "drain"
    /\ get_active_worker_count = 0
    /\ IF should_run_post_processing(job)
       THEN /\ Len(units) < cfg.n + MaxPostUnits
            /\ LET post_unit_id == Len(units) + 1
                   post_unit == NewWorkUnit(post_unit_id, "post_processing", cfg.post_retries)
               IN  /\ submit_work_unit(Append(units, post_unit), post_unit, LowestFreeSlot)
                   /\ job' = update_job(job, [job EXCEPT !.status = "post_processing",
                                              !.post_processing_unit_id = post_unit_id])
       ELSE UNCHANGED <<db, hosts, job, units, active_workers>>
    /\ exec' = [exec EXCEPT !.pc = "final", !.job = job]
    /\ UNCHANGED <<db, hosts, cfg, orch, procs, invocations, ops, fs>>

PostStatus(j) ==
    IF j.post_processing_unit_id # NULL /\ j.post_processing_unit_id \in DOMAIN units
    THEN units[j.post_processing_unit_id].status
    ELSE "none"

\* lines 196-208: the pool has drained; the final status is computed and persisted
ExFinal ==
    /\ exec.alive /\ exec.pc = "final"
    /\ get_active_worker_count = 0
    /\ job' = update_job(job, [job EXCEPT
                !.status = determine_final_status(job.completed_units, job.failed_units,
                              job.total_units, job.bypass_failures,
                              job.post_processing_prompt, PostStatus(job)),
                !.completed_at = TRUE, !.executor_completed_at = TRUE])
    /\ exec' = [exec EXCEPT !.alive = FALSE, !.pc = "exited", !.exitcode = <<0>>]
    /\ UNCHANGED <<db, hosts, cfg, units, active_workers, orch, procs, invocations, ops, fs>>

\* ------------------------------------------------------------------ worker_pool.py
\* _execute_work_unit, lines 170-172
WkStart(s) ==
    /\ active_workers[s].pc = "assigned"
    /\ LET work_unit == [active_workers[s].work_unit EXCEPT !.status = "processing",
                                                          !.started_at = TRUE]
       IN  /\ units' = update_work_unit(units, work_unit)
           /\ active_workers' = [active_workers EXCEPT ![s].pc = "spawn",
                                                       ![s].work_unit = work_unit]
    /\ UNCHANGED <<db, hosts, cfg, job, exec, orch, procs, invocations, ops, fs>>

\* the driver starts the agent subprocess; on_process_start, lines 186-188
WkSpawn(s) ==
    /\ active_workers[s].pc = "spawn"
    /\ LET id == active_workers[s].work_unit.unit_id
           pid == invocations[id] + 1
       IN  /\ invocations' = [invocations EXCEPT ![id] = pid]
           /\ procs' = procs \cup {<<id, pid>>}
           /\ units' = set_work_unit_process_id(units, id, pid)
           /\ active_workers' = [active_workers EXCEPT ![s].pc = "running",
                                    ![s].work_unit.process_id = pid]
    /\ UNCHANGED <<db, hosts, cfg, job, exec, orch, ops, fs>>

\* what lines 198-211 and 231-233 set on the in-memory unit from the driver's result
apply_result(work_unit, success) ==
    [work_unit EXCEPT !.completed_at = TRUE, !.execution_time_seconds = TRUE,
                      !.output_files = cfg.files, !.process_id = NULL,
                      !.rendered_prompt = TRUE, !.conversation = TRUE,
                      !.session_id = TRUE, !.cost_usd = TRUE,
                      !.status = IF success THEN "completed" ELSE "failed",
                      !.result = TRUE,
                      !.error = IF success THEN @ ELSE TRUE]

\* the driver returns (lines 190-211, 231-233): the subprocess exited by itself with
\* either outcome, or it was killed and the driver reports a failure
WkDriverReturn(s) ==
    /\ active_workers[s].pc = "running"
    /\ LET work_unit == active_workers[s].work_unit
           p == <<work_unit.unit_id, work_unit.process_id>>
       IN  \E success \in (IF p \in procs THEN DriverOutcomes(work_unit) ELSE {FALSE}) :
               /\ procs' = procs \ {p}
               /\ active_workers' = [active_workers EXCEPT ![s].pc = "callback",
                        ![s].success = success,
                        ![s].work_unit = apply_result(work_unit, success)]
    /\ UNCHANGED <<db, hosts, cfg, job, units, exec, orch, invocations, ops, fs>>

\* _on_unit_complete line 262, _on_unit_failed line 281: get_job
WkCallbackRead(s) ==
    /\ active_workers[s].pc = "callback"
    /\ active_workers' = [active_workers EXCEPT ![s].pc = "callback_write", ![s].job = job]
    /\ UNCHANGED <<db, hosts, cfg, job, units, exec, orch, procs, invocations, ops, fs>>

\* _on_unit_failed lines 285-289: the in-memory unit goes back to pending
retry_unit(work_unit) ==
    [work_unit EXCEPT !.status = "pending", !.retry_count = @ + 1, !.worker_id = NULL,
                      !.assigned_at = FALSE, !.started_at = FALSE]

\* the callbacks without their post-processing test
is_post_processing_never(work_unit, j) == FALSE

\* job_executor.py lines 264 and 282
is_post_processing(work_unit, j) == work_unit.unit_id = j.post_processing_unit_id

\* _on_unit_complete lines 264-267, _on_unit_failed lines 284-299
WkCallbackWrite(s) ==
    /\ active_workers[s].pc = "callback_write"
    /\ LET w == active_workers[s]
       IN  IF w.success
           THEN /\ job' = IF is_post_processing(w.work_unit, w.job) THEN job
                          ELSE update_job(job, [w.job EXCEPT !.completed_units = @ + 1])
                /\ units' = units
                /\ active_workers' = [active_workers EXCEPT ![s].pc = "final_write"]
           ELSE IF can_retry(w.work_unit)
           THEN /\ units' = update_work_unit(units, retry_unit(w.work_unit))
                /\ job' = job
                /\ active_workers' = [active_workers EXCEPT ![s].pc = "final_write",
                                         ![s].work_unit = retry_unit(w.work_unit)]
           ELSE /\ job' = IF is_post_processing(w.work_unit, w.job) THEN job
                          ELSE update_job(job, [w.job EXCEPT !.failed_units = @ + 1])
                /\ units' = units
                /\ active_workers' = [active_workers EXCEPT ![s].pc = "final_write"]
    /\ UNCHANGED <<db, hosts, cfg, exec, orch, procs, invocations, ops, fs>>

\* _execute_work_unit line 248
WkFinalWrite(s) ==
    /\ active_workers[s].pc = "final_write"
    /\ units' = update_work_unit(units, active_workers[s].work_unit)
    /\ active_workers' = [active_workers EXCEPT ![s].pc = "release"]
    /\ UNCHANGED <<db, hosts, cfg, job, exec, orch, procs, invocations, ops, fs>>

\* the finally block without its pop from active_workers
WkReleaseWithoutPop(s) ==
    /\ active_workers[s].pc = "release"
    /\ active_workers' = [active_workers EXCEPT ![s].pc = "idle"]
    /\ UNCHANGED <<db, hosts, cfg, job, units, exec, orch, procs, invocations, ops, fs>>

\* _execute_work_unit lines 272-281: the slot is released
WkRelease(s) ==
    /\ active_workers[s].pc = "release"
    /\ active_workers' = [active_workers EXCEPT ![s] = FreeSlot]
    /\ UNCHANGED <<db, hosts, cfg, job, units, exec, orch, procs, invocations, ops, fs>>

\* ------------------------------------------------------------------ orchestrator.py
IdleOrch == [pc |-> "idle", test_unit |-> NoUnit, job |-> NoJob, pid |-> NULL]

\* every variable but hosts
rows == <<cfg, job, units, exec, active_workers, orch, procs, invocations, ops, fs, db>>

\* _start_job_executor
start_job_executor(row) ==
    /\ ~exec.alive
    /\ ops.spawns < MaxExecutors
    /\ start_detached([row EXCEPT !.status = "running", !.started_at = TRUE])
    /\ UNCHANGED <<db, cfg, units, active_workers, orch, procs, invocations, fs>>

\* _run_test_phase, lines 234-246: the first pending unit becomes the test unit
run_test_phase_begin(row) ==
    LET pending == get_pending_units(units, 1)
    IN  IF pending = <<>>
        THEN UNCHANGED rows
        ELSE /\ ops.tests < MaxTests
             /\ LET j == [row EXCEPT !.status = "testing",
                                     !.test_unit_id = pending[1].unit_id]
                    test_unit == [pending[1] EXCEPT !.status = "processing",
                                                    !.started_at = TRUE]
                IN  /\ job' = update_job(job, j)
                    /\ units' = update_work_unit(units, test_unit)
                    /\ orch' = [pc |-> "spawn", test_unit |-> test_unit, job |-> j,
                                pid |-> NULL]
             /\ ops' = [ops EXCEPT !.tests = @ + 1]
             /\ UNCHANGED <<db, cfg, exec, active_workers, procs, invocations, fs>>

\* start_job that treats a paused job like a running one
start_job_resuming_paused(approve, skip_test) ==
    /\ orch.pc = "idle"
    /\ CASE job.status = "created" ->
              IF skip_test THEN start_job_executor(job) ELSE run_test_phase_begin(job)
         [] job.status = "testing" ->
              IF approve = "true" THEN start_job_executor(job)
              ELSE IF approve = "false"
              THEN /\ job' = update_job(job, [job EXCEPT !.status = "created",
                                                         !.test_passed = FALSE])
                   /\ UNCHANGED <<db, cfg, units, exec, active_workers, orch, procs,
                                  invocations, ops, fs>>
              ELSE UNCHANGED rows
         [] job.status \in {"running", "paused"} ->
              IF ExecutorRunning(job.executor_pid) THEN UNCHANGED rows
              ELSE start_job_executor(job)
         [] OTHER -> UNCHANGED rows

\* Orchestrator.start_job on the stored job: what it does to the rows and processes;
\* approve is "true", "false" or "none", skip_test stands for the argument, the
\* ABP_SKIP_TEST environment flag and DEFAULT_SKIP_TEST together.
start_job(approve, skip_test) ==
    /\ orch.pc = "idle"
    /\ CASE job.status = "created" ->
              IF skip_test THEN start_job_executor(job) ELSE run_test_phase_begin(job)
         [] job.status = "testing" ->
              IF approve = "true" THEN start_job_executor(job)
              ELSE IF approve = "false"
              THEN /\ job' = update_job(job, [job EXCEPT !.status = "created",
                                                         !.test_passed = FALSE])
                   /\ UNCHANGED <<db, cfg, units, exec, active_workers, orch, procs,
                                  invocations, ops, fs>>
              ELSE UNCHANGED rows
         [] job.status = "running" ->
              IF ExecutorRunning(job.executor_pid) THEN UNCHANGED rows
              ELSE start_job_executor(job)
         [] OTHER -> UNCHANGED rows

\* what start_job returns
start_job_reply(approve, skip_test) ==
    CASE job.status = "created" ->
              IF skip_test THEN "started"
              ELSE IF get_pending_units(units, 1) = <<>> THEN "error_no_pending_units"
              ELSE "testing"
         [] job.status = "testing" ->
              IF approve = "true" THEN "started"
              ELSE IF approve = "false" THEN "reset"
              ELSE "test_results"
         [] job.status = "running" ->
              IF ExecutorRunning(job.executor_pid) THEN "running" ELSE "started"
         [] OTHER -> "error_status"

\* start_job by a caller whose reply is not looked at
StartJob(approve, skip_test) == start_job(approve, skip_test) /\ UNCHANGED hosts

\* start_job with its reply
StartJobCall(approve, skip_test) ==
    /\ start_job(approve, skip_test)
    /\ hosts' = [hosts EXCEPT !.reply = start_job_reply(approve, skip_test)]

\* start_job with a job id that no row has: lines 183-185
StartJobUnknown ==
    /\ orch.pc = "idle"
    /\ hosts' = [hosts EXCEPT !.reply = "error_not_found"]
    /\ UNCHANGED rows

\* _run_test_phase: the driver starts the subprocess; on_process_start, lines 257-259
TestSpawn ==
    /\ orch.pc = "spawn"
    /\ LET id == orch.test_unit.unit_id
           pid == invocations[id] + 1
       IN  /\ invocations' = [invocations EXCEPT ![id] = pid]
           /\ procs' = procs \cup {<<id, pid>>}
           /\ units' = set_work_unit_process_id(units, id, pid)
           /\ orch' = [orch EXCEPT !.pc = "running", !.pid = pid]
    /\ UNCHANGED <<db, hosts, cfg, job, exec, active_workers, ops, fs>>

\* _run_test_phase, lines 269-281: the driver returned
TestFinish ==
    /\ orch.pc = "running"
    /\ LET p == <<orch.test_unit.unit_id, orch.pid>>
       IN  \E success \in (IF p \in procs THEN Outcomes(orch.pid) ELSE {FALSE}) :
             LET test_unit == [orch.test_unit EXCEPT
                                 !.status = IF success THEN "completed" ELSE "failed",
                                 !.completed_at = TRUE, !.result = TRUE,
                                 !.error = ~success, !.conversation = TRUE,
                                 !.execution_time_seconds = TRUE, !.cost_usd = TRUE]
                 j == [orch.job EXCEPT !.test_passed = success,
                                       !.completed_units = IF success THEN 1 ELSE @]
             IN  /\ procs' = procs \ {p}
                 /\ units' = update_work_unit(units, test_unit)
                 /\ job' = update_job(job, j)
                 /\ orch' = IdleOrch
    /\ UNCHANGED <<db, hosts, cfg, exec, active_workers, invocations, ops, fs>>

\* ------------------------------------------------------------------ process controls
\* JobExecutor.resume_job
ResumeJob ==
    /\ get_pending_units(units, 1) # <<>>
    /\ ~ExecutorRunning(job.executor_pid)
    /\ ~exec.alive
    /\ ops.spawns < MaxExecutors
    /\ start_detached(job)
    /\ UNCHANGED <<db, hosts, cfg, units, active_workers, orch, procs, invocations, fs>>

AllFree == [s \in Slots |-> FreeSlot]

\* what kill_executor returns
kill_executor_result ==
    IF job.executor_pid = NULL THEN "no_executor"
    ELSE IF ~ExecutorRunning(job.executor_pid) THEN "already_dead"
    ELSE "killed"

\* JobExecutor.kill_executor
KillExecutor ==
    /\ ops.exec_kills < MaxExecKills
    /\ kill_executor_result # "no_executor"
    /\ IF kill_executor_result = "already_dead"
       THEN /\ job' = update_job(job, [job EXCEPT !.status = "failed", !.killed_at = TRUE])
            /\ UNCHANGED <<db, hosts, units, exec, active_workers>>
       ELSE /\ exec' = [exec EXCEPT !.alive = FALSE, !.pc = "killed",
                                        !.exitcode = <<-SIGKILL>>]
            /\ active_workers' = AllFree
            /\ job' = update_job(job, [job EXCEPT !.status = "failed", !.killed_at = TRUE])
            /\ units' = reset_stuck_units(units)
    /\ ops' = [ops EXCEPT !.exec_kills = @ + 1]
    /\ UNCHANGED <<db, hosts, cfg, orch, procs, invocations, fs>>

\* what kill_work_unit returns for a unit of the job
kill_work_unit_result(u) ==
    IF units[u].process_id = NULL THEN "no_process"
    ELSE IF <<u, units[u].process_id>> \notin procs THEN "already_dead"
    ELSE "killed"

\* JobExecutor.kill_work_unit
KillWorkUnit(u) ==
    /\ ops.unit_kills < MaxUnitKills
    /\ kill_work_unit_result(u) # "no_process"
    /\ IF kill_work_unit_result(u) = "already_dead"
       THEN /\ units' = update_work_unit(units, [units[u] EXCEPT !.status = "failed",
                                            !.error = TRUE, !.process_id = NULL])
            /\ procs' = procs
       ELSE /\ procs' = procs \ {<<u, units[u].process_id>>}
            /\ units' = update_work_unit(units, [units[u] EXCEPT !.process_id = NULL])
    /\ ops' = [ops EXCEPT !.unit_kills = @ + 1]
    /\ UNCHANGED <<db, hosts, cfg, job, exec, active_workers, orch, invocations, fs>>

Max(a, b) == IF a >= b THEN a ELSE b

\* restart_work_unit lines 589-601: the fields the reset clears
reset_to_pending(unit) ==
    [unit EXCEPT !.status = "pending", !.error = FALSE, !.result = FALSE,
                 !.worker_id = NULL, !.assigned_at = FALSE, !.started_at = FALSE,
                 !.completed_at = FALSE, !.execution_time_seconds = FALSE,
                 !.process_id = NULL, !.conversation = FALSE,
                 !.rendered_prompt = FALSE, !.session_id = FALSE, !.cost_usd = FALSE]

\* JobExecutor.restart_work_unit
RestartWorkUnit(u) ==
    /\ ops.restarts < MaxRestarts
    /\ units[u].status = "failed"
    /\ procs' = procs \ {<<u, units[u].process_id>>}
    /\ job' = update_job(job, [job EXCEPT !.failed_units = Max(0, @ - 1)])
    /\ units' = update_work_unit(units, reset_to_pending(units[u]))
    /\ ops' = [ops EXCEPT !.restarts = @ + 1]
    /\ UNCHANGED <<db, hosts, cfg, exec, active_workers, orch, invocations, fs>>

\* ------------------------------------------------------------------ concurrent callers
\* Host processes (MCP server, dashboard, CLI) that issue control calls at the same time.
Hosts == 1..MaxHosts

IdleCall == [pc |-> "idle", unit |-> NoUnit]

\* calls: where each host is inside its call, with the row it read;
\* executors: pids of live executor processes other than the one `exec` follows;
\* reply: what the last start_job call returned to a caller that looks at it.
IdleHosts == [calls |-> [h \in Hosts |-> IdleCall], executors |-> {}, reply |-> "none"]

\* every live executor process of the job
LiveExecutors == (IF exec.alive THEN {exec.pid} ELSE {}) \cup hosts.executors

\* The dashboard's restart endpoint up to its call of resume_job: refused while the
\* recorded executor runs, else reset_stuck_units and, with a pending unit, resume_job.
RestartJobReset(h) ==
    /\ hosts.calls[h].pc = "idle"
    /\ ops.calls < MaxCalls
    /\ ~ExecutorRunning(job.executor_pid)
    /\ units' = reset_stuck_units(units)
    /\ hosts' = [hosts EXCEPT !.calls[h].pc =
                     IF get_pending_units(units', 1) # <<>> THEN "resume" ELSE "idle"]
    /\ ops' = [ops EXCEPT !.calls = @ + 1]
    /\ UNCHANGED <<db, cfg, job, exec, active_workers, orch, procs, invocations, fs>>

\* resume_job lines 618-627, called directly or from the restart endpoint: with a
\* pending unit and no running executor recorded, the caller goes on to start_detached.
ResumeCheck(h) ==
    /\ hosts.calls[h].pc \in {"idle", "resume"}
    /\ hosts.calls[h].pc = "idle" => ops.calls < MaxCalls
    /\ hosts' = [hosts EXCEPT !.calls[h].pc =
                     IF /\ get_pending_units(units, 1) # <<>>
                        /\ ~ExecutorRunning(job.executor_pid)
                     THEN "spawn" ELSE "idle"]
    /\ ops' = [ops EXCEPT !.calls = IF hosts.calls[h].pc = "idle" THEN @ + 1 ELSE @]
    /\ UNCHANGED <<db, cfg, job, units, exec, active_workers, orch, procs, invocations, fs>>

\* resume_job lines 629-630: start_detached.  The model follows one executor step by
\* step (exec); one started while that executor is alive is kept by its pid only.
ResumeSpawn(h) ==
    /\ hosts.calls[h].pc = "spawn"
    /\ ops.spawns < MaxExecutors
    /\ IF exec.alive
       THEN /\ hosts' = [hosts EXCEPT !.calls[h] = IdleCall,
                                      !.executors = @ \cup {ops.spawns + 1}]
            /\ job' = update_job(job, [job EXCEPT !.executor_pid = ops.spawns + 1])
            /\ ops' = [ops EXCEPT !.spawns = @ + 1]
            /\ exec' = exec
       ELSE /\ hosts' = [hosts EXCEPT !.calls[h] = IdleCall]
            /\ start_detached(job)
    /\ UNCHANGED <<db, cfg, units, active_workers, orch, procs, invocations, fs>>

\* an executor the model does not follow ends
ExecutorExit ==
    /\ \E p \in hosts.executors : hosts' = [hosts EXCEPT !.executors = @ \ {p}]
    /\ UNCHANGED <<db, cfg, job, units, exec, active_workers, orch, procs, invocations, ops, fs>>

\* kill_work_unit by a host while the executor runs, call by call.
\* line 507: get_work_unit; lines 514-516: a unit without process_id is refused
KillUnitRead(h, u) ==
    /\ hosts.calls[h].pc = "idle"
    /\ ops.unit_kills < MaxUnitKills
    /\ units[u].process_id # NULL
    /\ hosts' = [hosts EXCEPT !.calls[h] = [pc |-> "kill_signal", unit |-> units[u]]]
    /\ ops' = [ops EXCEPT !.unit_kills = @ + 1]
    /\ UNCHANGED <<db, cfg, job, units, exec, active_workers, orch, procs, invocations, fs>>

\* lines 518-534: os.kill(pid, 0), then SIGKILL to the process group
KillUnitSignal(h) ==
    /\ hosts.calls[h].pc = "kill_signal"
    /\ LET unit == hosts.calls[h].unit
           p == <<unit.unit_id, unit.process_id>>
       IN  /\ hosts' = [hosts EXCEPT !.calls[h].pc =
                            IF p \in procs THEN "kill_write" ELSE "kill_write_dead"]
           /\ procs' = procs \ {p}
    /\ UNCHANGED <<db, cfg, job, units, exec, active_workers, orch, invocations, ops, fs>>

\* lines 521-525 (already dead) or 536-538 (killed): the row read at line 507 is written
KillUnitWrite(h) ==
    /\ hosts.calls[h].pc \in {"kill_write", "kill_write_dead"}
    /\ LET unit == hosts.calls[h].unit
       IN  units' = update_work_unit(units,
                        IF hosts.calls[h].pc = "kill_write_dead"
                        THEN [unit EXCEPT !.status = "failed", !.error = TRUE,
                                          !.process_id = NULL]
                        ELSE [unit EXCEPT !.process_id = NULL])
    /\ hosts' = [hosts EXCEPT !.calls[h] = IdleCall]
    /\ UNCHANGED <<db, cfg, job, exec, active_workers, orch, procs, invocations, ops, fs>>

\* ------------------------------------------------------------------ faults
\* The executor process dies without running any handler (SIGKILL, power loss): its
\* threads stop where they are; the agent subprocesses run in sessions of their own.
ExCrash ==
    /\ exec.alive
    /\ ops.crashes < MaxCrashes
    /\ exec' = [exec EXCEPT !.alive = FALSE, !.pc = "crashed",
                          !.exitcode = <<-SIGKILL>>]
    /\ active_workers' = AllFree
    /\ ops' = [ops EXCEPT !.crashes = @ + 1]
    /\ UNCHANGED <<db, hosts, cfg, job, units, orch, procs, invocations, fs>>

\* subprocesses some live thread still reads from
OwnedProcs ==
    {<<active_workers[s].work_unit.unit_id, active_workers[s].work_unit.process_id>> :
        s \in {t \in Slots : active_workers[t].pc = "running"}}
    \cup (IF orch.pc = "running" THEN {<<orch.test_unit.unit_id, orch.pid>>} ELSE {})

\* an agent subprocess whose executor is gone exits
OrphanExit ==
    /\ \E p \in procs \ OwnedProcs : procs' = procs \ {p}
    /\ UNCHANGED <<db, hosts, cfg, job, units, exec, active_workers, orch, invocations, ops, fs>>

\* ------------------------------------------------------------------ _determine_final_status alone
NoDecision ==
    [completed |-> 0, failed |-> 0, total |-> 0, bypass |-> FALSE, prompt |-> FALSE,
     post_status |-> "none", status |-> "none"]

PostStatuses == {"none", "pending", "assigned", "processing", "completed", "failed"}

\* the values of a job and its post-processing unit that _determine_final_status reads
FinalInputs ==
    [completed : 0..NumUnits, failed : 0..NumUnits, total : 1..NumUnits,
     bypass : BOOLEAN, prompt : BOOLEAN, post_status : PostStatuses, status : {"none"}]

\* one call of _determine_final_status on the inputs held in fs
DetermineFinalStatus ==
    /\ fs.status = "none"
    /\ fs.total > 0
    /\ fs' = [fs EXCEPT !.status = determine_final_status(fs.completed, fs.failed,
                                      fs.total, fs.bypass, fs.prompt, fs.post_status)]
    /\ UNCHANGED <<db, hosts, cfg, job, units, exec, active_workers, orch, procs, invocations, ops>>

\* ------------------------------------------------------------------ repository calls alone
\* A database that holds several jobs.  A work_units row carries the columns the calls
\* below read or write; the table is a sequence in rowid order.
JobIds == 1..MaxJobs

UnitStatuses == {"pending", "assigned", "processing", "completed", "failed"}

WorkerStatuses == {"idle", "busy", "failed", "terminated"}

\* db.returned after a call: its name, its job argument, its return value, and how many
\* times in a row it has now been made with that argument
Returned(name, j, value) ==
    <<name, j, value,
      IF db.returned # <<>> /\ db.returned[1] = name /\ db.returned[2] = j
      THEN db.returned[4] + 1 ELSE 1>>

\* reset_stuck_units with the rows of a job that skips the job_id condition
reset_stuck_units_of_any_job(table, job_id) ==
    [i \in DOMAIN table |->
        IF table[i].status \in {"assigned", "processing"}
        THEN [table[i] EXCEPT !.status = "pending", !.worker_id = NULL,
                              !.assigned_at = FALSE, !.started_at = FALSE]
        ELSE table[i]]

\* Repository.reset_stuck_units: UPDATE ... WHERE job_id = ? AND status IN (assigned,
\* processing)
reset_stuck_units_of_job(table, job_id) ==
    [i \in DOMAIN table |->
        IF table[i].job_id = job_id /\ table[i].status \in {"assigned", "processing"}
        THEN [table[i] EXCEPT !.status = "pending", !.worker_id = NULL,
                              !.assigned_at = FALSE, !.started_at = FALSE]
        ELSE table[i]]

\* cursor.rowcount of that UPDATE
stuck_units_rowcount(table, job_id) ==
    Cardinality({i \in DOMAIN table :
        table[i].job_id = job_id /\ table[i].status \in {"assigned", "processing"}})

\* Repository.cleanup_stale_workers: UPDATE workers SET status = terminated
\* WHERE job_id = ? AND status IN (busy, idle)
cleanup_stale_workers_of_job(table, job_id) ==
    [i \in DOMAIN table |->
        IF table[i].job_id = job_id /\ table[i].status \in {"busy", "idle"}
        THEN [table[i] EXCEPT !.status = "terminated"]
        ELSE table[i]]

stale_workers_rowcount(table, job_id) ==
    Cardinality({i \in DOMAIN table :
        table[i].job_id = job_id /\ table[i].status \in {"busy", "idle"}})

\* a call of reset_stuck_units(j)
ResetStuckUnits(j) ==
    /\ db.returned # <<>> => db.returned[4] < MaxRepeat \/ db.returned[2] # j
                                \/ db.returned[1] # "reset_stuck_units"
    /\ db' = [db EXCEPT
                !.work_units = reset_stuck_units_of_job(db.work_units, j),
                !.returned = Returned("reset_stuck_units", j,
                                      stuck_units_rowcount(db.work_units, j))]
    /\ UNCHANGED <<hosts, cfg, job, units, exec, active_workers, orch, procs, invocations,
                   ops, fs>>

\* a call of cleanup_stale_workers(j)
CleanupStaleWorkers(j) ==
    /\ db.returned # <<>> => db.returned[4] < MaxRepeat \/ db.returned[2] # j
                                \/ db.returned[1] # "cleanup_stale_workers"
    /\ db' = [db EXCEPT
                !.workers = cleanup_stale_workers_of_job(db.workers, j),
                !.returned = Returned("cleanup_stale_workers", j,
                                      stale_workers_rowcount(db.workers, j))]
    /\ UNCHANGED <<hosts, cfg, job, units, exec, active_workers, orch, procs, invocations,
                   ops, fs>>

\* ------------------------------------------------------------------ orchestrator.py: create_job
\* An item's payload as json.dumps sees it: a value it encodes, or one holding a bytes
\* value (a BLOB column of the SQL enumerator), on which it raises TypeError.
Payloads == {"json", "bytes"}

ItemLists == UNION {[1..n -> Payloads] : n \in 0..NumUnits}

\* what create_enumerator, validate_config and enumerate come to
Enumerations == {"invalid_type", "invalid_config", "enumeration_error", "items"}

\* the jobs row Repository.create_job inserts
NewJobRow(job_id, total) ==
    [job_id |-> job_id, status |-> "created", total_units |-> total,
     completed_units |-> 0, failed_units |-> 0]

\* the work_units row Repository.create_work_unit inserts
NewUnitRow(job_id, payload, max_retries) ==
    [job_id |-> job_id, status |-> "pending", retry_count |-> 0, payload |-> payload,
     max_retries |-> max_retries]

\* the loop over result.items from item k on: one INSERT in its own transaction per item.
\* An item in locked meets sqlite3.Error: create_work_unit returns False, which the loop
\* does not look at.  A bytes payload raises TypeError out of the loop.
RECURSIVE create_work_units(_, _, _, _, _, _)
create_work_units(table, job_id, items, max_retries, k, locked) ==
    IF k > Len(items) THEN [work_units |-> table, raised |-> FALSE]
    ELSE IF k \in locked
         THEN create_work_units(table, job_id, items, max_retries, k + 1, locked)
    ELSE IF items[k] = "bytes" THEN [work_units |-> table, raised |-> TRUE]
    ELSE create_work_units(Append(table, NewUnitRow(job_id, items[k], max_retries)),
                           job_id, items, max_retries, k + 1, locked)

\* Orchestrator.create_job.  db.returned: the call, the job_id, how the call ended
\* ("error" is {success: False}, "raised" an exception) and total_items.
CreateJob(enumeration, items, max_retries, job_saved, locked) ==
    /\ ops.calls < MaxCalls
    /\ ops' = [ops EXCEPT !.calls = @ + 1]
    /\ LET job_id == Len(db.jobs) + 1
           loop == create_work_units(db.work_units, job_id, items, max_retries, 1, locked)
       IN  IF enumeration # "items" \/ items = <<>> \/ ~job_saved
           THEN db' = [db EXCEPT !.returned = <<"create_job", NULL, "error", 0>>]
           ELSE db' = [db EXCEPT
                        !.jobs = Append(@, NewJobRow(job_id, Len(items))),
                        !.work_units = loop.work_units,
                        !.returned = <<"create_job", job_id,
                                       IF loop.raised THEN "raised" ELSE "success",
                                       Len(items)>>]
    /\ UNCHANGED <<hosts, cfg, job, units, exec, active_workers, orch, procs, invocations,
                   fs>>


\* ------------------------------------------------------------------ repository.py: get_pending_units
\* created_at values: isoformat strings of naive datetime.now() values compare as the
\* times do
Times == 1..MaxTime

\* the rows the WHERE clause keeps: job_id = ? AND status = pending
PendingRowsOfJob(table, job_id) ==
    {i \in DOMAIN table : table[i].job_id = job_id /\ table[i].status = "pending"}

\* every order in which ORDER BY created_at may deliver the rows ids: ascending, rows of
\* equal created_at in any order
OrderedByCreatedAt(table, ids) ==
    {s \in [1..Cardinality(ids) -> ids] :
        \A a, b \in 1..Cardinality(ids) :
            a < b => s[a] # s[b] /\ table[s[a]].created_at <= table[s[b]].created_at}

\* the same rows in rowid order: a SELECT without ORDER BY
OrderedByRowid(table, ids) ==
    {s \in [1..Cardinality(ids) -> ids] :
        \A a, b \in 1..Cardinality(ids) : a < b => s[a] < s[b]}

\* LIMIT ?
Limited(s, limit) == IF Len(s) <= limit THEN s ELSE SubSeq(s, 1, limit)

\* get_pending_units without its ORDER BY clause
get_pending_units_unordered(table, job_id, limit) ==
    {[k \in DOMAIN Limited(s, limit) |-> table[s[k]]] :
        s \in OrderedByRowid(table, PendingRowsOfJob(table, job_id))}

\* Repository.get_pending_units: the lists of work units the SELECT may return
get_pending_units_of_job(table, job_id, limit) ==
    {[k \in DOMAIN Limited(s, limit) |-> table[s[k]]] :
        s \in OrderedByCreatedAt(table, PendingRowsOfJob(table, job_id))}

\* a call of get_pending_units(j, limit); db.returned holds the call, j, the list and limit
GetPendingUnits(j, limit) ==
    /\ \E list \in get_pending_units_of_job(db.work_units, j, limit) :
          db' = [db EXCEPT !.returned = <<"get_pending_units", j, list, limit>>]
    /\ UNCHANGED <<hosts, cfg, job, units, exec, active_workers, orch, procs, invocations,
                   ops, fs>>


\* ------------------------------------------------------------------ repository.py: append_conversation_event
\* Stream events are parsed JSON objects; the one told from the other by its type.
Events == {[type |-> "assistant"], [type |-> "tool_use"]}

\* The conversation column is NULL or the JSON text of a list; json.loads gives back the
\* list json.dumps was given, events being JSON values.
NullText == [null |-> TRUE, json |-> <<>>]

json_dumps(list) == [null |-> FALSE, json |-> list]

json_loads(text) == text.json

\* current = json.loads(row["conversation"]) if row["conversation"] else []
stored_conversation(column) == IF column.null THEN <<>> ELSE json_loads(column)

\* _row_to_work_unit: the conversation get_work_unit returns, None for a NULL column
read_conversation(column) ==
    IF column.null THEN [none |-> TRUE, list |-> <<>>]
    ELSE [none |-> FALSE, list |-> json_loads(column)]

\* an UPDATE that stores the event alone
conversation_with_event_only(column, event) == json_dumps(<<event>>)

\* the column the UPDATE writes: the stored list with the event appended
conversation_with_event(column, event) ==
    json_dumps(Append(stored_conversation(column), event))

\* Repository.append_conversation_event(unit_id, event): False for a unit_id that names
\* no row, else UPDATE work_units SET conversation = ? WHERE unit_id = ?
AppendConversationEvent(unit_id, event) ==
    /\ unit_id \in DOMAIN db.work_units =>
          Len(stored_conversation(db.work_units[unit_id].conversation)) < MaxEvents
    /\ db.returned # <<>> => db.returned[4] < MaxRepeat \/ db.returned[2] # unit_id
    /\ IF unit_id \notin DOMAIN db.work_units
       THEN db' = [db EXCEPT
                    !.returned = Returned("append_conversation_event", unit_id, FALSE)]
       ELSE db' = [db EXCEPT
                    !.work_units[unit_id].conversation = conversation_with_event(@, event),
                    !.returned = Returned("append_conversation_event", unit_id, TRUE)]
    /\ UNCHANGED <<hosts, cfg, job, units, exec, active_workers, orch, procs, invocations,
                   ops, fs>>


\* ------------------------------------------------------------------ start_detached, parent and child
\* _start_job_executor lines 319-321 and start_detached lines 74-77 for a created job
\* started with skip_test: the job is stored as running and the child process is started.
\* The parent goes on at line 79 while the child runs _run_job_loop.
DetachStart ==
    /\ orch.pc = "idle" /\ job.status = "created"
    /\ ~exec.alive /\ ops.spawns < MaxExecutors
    /\ job' = update_job(job, [job EXCEPT !.status = "running", !.started_at = TRUE])
    /\ exec' = [alive |-> TRUE, pid |-> ops.spawns + 1, pc |-> "get_job",
                job |-> NoJob, pending_units |-> <<>>, should_stop |-> FALSE,
                raised |-> FALSE, exitcode |-> <<>>]
    /\ orch' = [orch EXCEPT !.pc = "detach_read", !.pid = ops.spawns + 1]
    /\ ops' = [ops EXCEPT !.spawns = @ + 1]
    /\ UNCHANGED <<db, hosts, cfg, units, active_workers, procs, invocations, fs>>

\* start_detached line 79: the parent reads the job row
DetachRead ==
    /\ orch.pc = "detach_read"
    /\ orch' = [orch EXCEPT !.pc = "detach_write", !.job = job]
    /\ UNCHANGED <<db, hosts, cfg, job, units, exec, active_workers, procs, invocations,
                   ops, fs>>

\* start_detached lines 80-84: the parent writes the row it read, with the child's pid
DetachWrite ==
    /\ orch.pc = "detach_write"
    /\ job' = update_job(job, [orch.job EXCEPT !.executor_pid = orch.pid])
    /\ orch' = IdleOrch
    /\ UNCHANGED <<db, hosts, cfg, units, exec, active_workers, procs, invocations, ops,
                   fs>>

\* _run_job_loop line 109: the child reads the job row
ExGetJob ==
    /\ exec.alive /\ exec.pc = "get_job"
    /\ exec' = [exec EXCEPT !.pc = "recover_write", !.job = job]
    /\ UNCHANGED <<db, hosts, cfg, job, units, active_workers, orch, procs, invocations,
                   ops, fs>>

\* _run_job_loop lines 116-125: recovery, then the row read at line 109 is written as
\* running
ExRecoverWrite ==
    /\ exec.alive /\ exec.pc = "recover_write"
    /\ LET j == [exec.job EXCEPT !.status = "running", !.started_at = TRUE]
       IN  /\ units' = reset_stuck_units(units)
           /\ job' = update_job(job, j)
           /\ exec' = [exec EXCEPT !.pc = "fetch", !.job = j]
    /\ UNCHANGED <<db, hosts, cfg, active_workers, orch, procs, invocations, ops, fs>>

\* ------------------------------------------------------------------ start_job beside a test phase
\* start_job(approve=True) by a second caller (another server process on the same
\* database) while the first caller's _run_test_phase has not returned: the job row says
\* testing, so lines 195-197 start the executor.
StartJobDuringTest ==
    /\ orch.pc # "idle" /\ job.status = "testing"
    /\ start_job_executor(job)
    /\ UNCHANGED hosts

\* ------------------------------------------------------------------ worker_pool.py: submit_work_unit
\* the pool's count with the workers left out whose subprocess has not started yet
active_worker_count_of_running == Cardinality({s \in Slots : active_workers[s].pc = "running"})

\* len(self.active_workers) as submit_work_unit reads it under the lock, line 89
active_worker_count == Cardinality(ActiveSlots)

\* WorkerPool.submit_work_unit (lines 88-112) called for the next fetched unit without
\* wait_for_available_slot before it: on a full pool it returns False, else it assigns
\* the unit to a new worker.  hosts.reply holds what it returned.
TrySubmit ==
    /\ exec.alive /\ exec.pc = "submit" /\ ~exec.should_stop
    /\ IF active_worker_count >= exec.job.max_workers
       THEN /\ hosts' = [hosts EXCEPT !.reply = "pool_full"]
            /\ UNCHANGED <<units, active_workers, exec>>
       ELSE /\ submit_work_unit(units, Head(exec.pending_units), LowestFreeSlot)
            /\ exec' = [exec EXCEPT !.pending_units = Tail(@),
                           !.pc = IF Tail(exec.pending_units) = <<>> THEN "fetch"
                                  ELSE "submit"]
            /\ hosts' = [hosts EXCEPT !.reply = "submitted"]
    /\ UNCHANGED <<db, cfg, job, orch, procs, invocations, ops, fs>>

\* ------------------------------------------------------------------ worker_pool.py: the workers table
\* The workers rows of the job, in db.workers, beside one executor run.  A row holds its
\* status and held_by: the pool slot whose thread holds the row's WorkerProcess object,
\* that is, the row's entry in WorkerPool.active_workers; NULL once it is popped.
create_worker(table, slot) ==
    Append(table, [job_id |-> 1, status |-> "busy", held_by |-> slot])

\* the finally block of _execute_work_unit on the workers table: update_worker with status
\* idle, then the pop from active_workers
release_worker(table, slot) ==
    [i \in DOMAIN table |->
        IF table[i].held_by = slot
        THEN [table[i] EXCEPT !.status = "idle", !.held_by = NULL]
        ELSE table[i]]

\* WorkerPool.stop after executor.shutdown(wait=True) returned: every worker still in
\* active_workers is written as terminated
terminate_active_workers(table) ==
    [i \in DOMAIN table |->
        IF table[i].held_by # NULL THEN [table[i] EXCEPT !.status = "terminated"]
        ELSE table[i]]

\* the dispatch loop's submit_work_unit, lines 88-112, with its create_worker
PoolSubmit ==
    /\ exec.alive /\ exec.pc = "submit"
    /\ IF exec.should_stop
       THEN /\ exec' = [exec EXCEPT !.pending_units = <<>>, !.pc = "drain"]
            /\ UNCHANGED <<units, active_workers, db>>
       ELSE /\ get_active_worker_count < exec.job.max_workers
            /\ submit_work_unit(units, Head(exec.pending_units), LowestFreeSlot)
            /\ db' = [db EXCEPT !.workers = create_worker(@, LowestFreeSlot)]
            /\ exec' = [exec EXCEPT !.pending_units = Tail(@),
                           !.pc = IF Tail(exec.pending_units) = <<>> THEN "fetch"
                                  ELSE "submit"]
    /\ UNCHANGED <<hosts, cfg, job, orch, procs, invocations, ops, fs>>

\* _execute_work_unit lines 272-281 with its update_worker
PoolRelease(s) ==
    /\ active_workers[s].pc = "release"
    /\ db' = [db EXCEPT !.workers = release_worker(@, s)]
    /\ active_workers' = [active_workers EXCEPT ![s] = FreeSlot]
    /\ UNCHANGED <<hosts, cfg, job, units, exec, orch, procs, invocations, ops, fs>>

\* lines 196-208 with pool.stop() on the workers table: wait_for_completion has returned,
\* shutdown(wait=True) returns, stop marks active_workers.values(), and the final status is
\* persisted
PoolFinal ==
    /\ exec.alive /\ exec.pc = "final"
    /\ get_active_worker_count = 0
    /\ db' = [db EXCEPT !.workers = terminate_active_workers(@)]
    /\ job' = update_job(job, [job EXCEPT
                !.status = determine_final_status(job.completed_units, job.failed_units,
                              job.total_units, job.bypass_failures,
                              job.post_processing_prompt, PostStatus(job)),
                !.completed_at = TRUE, !.executor_completed_at = TRUE])
    /\ exec' = [exec EXCEPT !.alive = FALSE, !.pc = "exited", !.exitcode = <<0>>]
    /\ UNCHANGED <<hosts, cfg, units, active_workers, orch, procs, invocations, ops, fs>>

\* ------------------------------------------------------------------ job_executor.py: a run loop that raises
\* A call inside the try blocks of _run_job_loop raises (a repository call on a locked or
\* unreadable database, for one).  Before the pool exists and after pool.stop() the
\* exception goes to the except block of line 210; inside the inner try it passes the
\* finally of line 196 first.  At "final" the executor is past pool.stop() once the pool
\* is empty.
ExRaise ==
    /\ exec.alive /\ ~exec.raised
    /\ exec.pc \in {"recover", "fetch", "check_active", "submit", "drain", "final"}
    /\ exec' = [exec EXCEPT !.raised = TRUE, !.pending_units = <<>>,
                   !.pc = IF \/ exec.pc = "recover"
                             \/ exec.pc = "final" /\ get_active_worker_count = 0
                          THEN "except" ELSE "stop_pool"]
    /\ UNCHANGED <<db, hosts, cfg, job, units, active_workers, orch, procs, invocations,
                   ops, fs>>

\* finally, lines 196-198, with the exception pending: pool.stop() returns once
\* shutdown(wait=True) has seen every submitted future finish
ExStopPool ==
    /\ exec.alive /\ exec.pc = "stop_pool"
    /\ get_active_worker_count = 0
    /\ db' = [db EXCEPT !.workers = terminate_active_workers(@)]
    /\ exec' = [exec EXCEPT !.pc = "except"]
    /\ UNCHANGED <<hosts, cfg, job, units, active_workers, orch, procs, invocations, ops,
                   fs>>

\* except Exception, lines 210-220: the job is written failed with executor_error in its
\* metadata; _run_job_loop then returns and the process ends as after any return
ExExcept ==
    /\ exec.alive /\ exec.pc = "except"
    /\ job' = update_job(job, [job EXCEPT !.status = "failed", !.executor_error = TRUE])
    /\ exec' = [exec EXCEPT !.alive = FALSE, !.pc = "exited", !.exitcode = <<0>>]
    /\ UNCHANGED <<db, hosts, cfg, units, active_workers, orch, procs, invocations, ops,
                   fs>>

\* ------------------------------------------------------------------ routes.py: bypass and restart
\* what the bypass endpoint answers, lines 159-181
bypass_failures_reply ==
    IF ~job.post_processing_prompt THEN "NO_POST_PROCESSING"
    ELSE IF (job.completed_units + job.failed_units) # job.total_units
         THEN "UNITS_STILL_PROCESSING"
    ELSE IF job.failed_units = 0 THEN "NO_FAILURES"
    ELSE IF job.bypass_failures THEN "ALREADY_BYPASSED"
    ELSE "bypass_enabled"

\* POST /api/jobs/{job_id}/bypass, lines 149-194
BypassFailures ==
    /\ hosts' = [hosts EXCEPT !.reply = bypass_failures_reply]
    /\ job' = IF bypass_failures_reply = "bypass_enabled"
              THEN update_job(job, [job EXCEPT !.bypass_failures = TRUE])
              ELSE job
    /\ UNCHANGED <<db, cfg, units, exec, active_workers, orch, procs, invocations, ops, fs>>

\* what the restart endpoint answers, lines 224-250, resume_job (job_executor.py lines
\* 618-630) included; the pending units are read after reset_stuck_units
restart_job_reply ==
    IF ExecutorRunning(job.executor_pid) THEN "ALREADY_RUNNING"
    ELSE IF get_pending_units(reset_stuck_units(units), 1) = <<>> THEN "NO_PENDING_UNITS"
    ELSE "restarted"

\* POST /api/jobs/{job_id}/restart, lines 212-252, by one caller
RestartJob ==
    /\ restart_job_reply = "restarted" => ops.spawns < MaxExecutors
    /\ hosts' = [hosts EXCEPT !.reply = restart_job_reply]
    /\ IF restart_job_reply = "ALREADY_RUNNING"
       THEN UNCHANGED <<units, job, exec, ops>>
       ELSE IF restart_job_reply = "NO_PENDING_UNITS"
       THEN /\ units' = reset_stuck_units(units)
            /\ UNCHANGED <<job, exec, ops>>
       ELSE /\ units' = reset_stuck_units(units)
            /\ start_detached(job)
    /\ UNCHANGED <<db, cfg, active_workers, orch, procs, invocations, fs>>

\* ------------------------------------------------------------------ job_executor.py: unit controls on any unit
\* kill_work_unit and restart_work_unit as calls on a database of several jobs: db.jobs
\* holds a row per job, db.work_units a row per unit with the columns the calls look at,
\* db.pids the process ids that os.kill finds alive.
\* restart_work_unit without its status test
restart_work_unit_error_any_status(table, job_id, unit_id) ==
    IF unit_id \notin DOMAIN table THEN "Work unit not found"
    ELSE IF table[unit_id].job_id # job_id THEN "Work unit does not belong to this job"
    ELSE "none"

\* restart_work_unit lines 561-572: the refusals
restart_work_unit_error(table, job_id, unit_id) ==
    IF unit_id \notin DOMAIN table THEN "Work unit not found"
    ELSE IF table[unit_id].job_id # job_id THEN "Work unit does not belong to this job"
    ELSE IF table[unit_id].status # "failed" THEN "Only failed units can be restarted"
    ELSE "none"

\* kill_work_unit lines 507-516: the refusals
kill_work_unit_error(table, job_id, unit_id) ==
    IF unit_id \notin DOMAIN table THEN "Work unit not found"
    ELSE IF table[unit_id].job_id # job_id THEN "Work unit does not belong to this job"
    ELSE IF table[unit_id].process_id = NULL THEN "No process found for this unit"
    ELSE "none"

\* the dict a control call returns
ControlResult(unit_id, error) == [unit_id |-> unit_id, success |-> error = "none", error |-> error]

\* JobExecutor.restart_work_unit(job_id, unit_id), lines 561-605
RestartWorkUnitCall(job_id, unit_id) ==
    /\ db.returned # <<>> => \/ db.returned[4] < MaxRepeat \/ db.returned[2] # job_id
                             \/ db.returned[1] # "restart_work_unit"
    /\ LET error == restart_work_unit_error(db.work_units, job_id, unit_id)
           returned == Returned("restart_work_unit", job_id, ControlResult(unit_id, error))
       IN  IF error # "none"
           THEN db' = [db EXCEPT !.returned = returned]
           ELSE db' = [db EXCEPT
                    !.pids = @ \ {db.work_units[unit_id].process_id},
                    !.jobs[job_id].failed_units = Max(0, @ - 1),
                    !.work_units[unit_id] = [@ EXCEPT !.status = "pending",
                                                      !.error = FALSE, !.process_id = NULL],
                    !.returned = returned]
    /\ UNCHANGED <<hosts, cfg, job, units, exec, active_workers, orch, procs, invocations,
                   ops, fs>>

\* JobExecutor.kill_work_unit(job_id, unit_id), lines 494-543
KillWorkUnitCall(job_id, unit_id) ==
    /\ db.returned # <<>> => \/ db.returned[4] < MaxRepeat \/ db.returned[2] # job_id
                             \/ db.returned[1] # "kill_work_unit"
    /\ LET error == kill_work_unit_error(db.work_units, job_id, unit_id)
           returned == Returned("kill_work_unit", job_id, ControlResult(unit_id, error))
       IN  IF error # "none"
           THEN db' = [db EXCEPT !.returned = returned]
           ELSE IF db.work_units[unit_id].process_id \notin db.pids
           THEN db' = [db EXCEPT
                    !.work_units[unit_id] = [@ EXCEPT !.status = "failed", !.error = TRUE,
                                                      !.process_id = NULL],
                    !.returned = returned]
           ELSE db' = [db EXCEPT
                    !.pids = @ \ {db.work_units[unit_id].process_id},
                    !.work_units[unit_id] = [@ EXCEPT !.process_id = NULL],
                    !.returned = returned]
    /\ UNCHANGED <<hosts, cfg, job, units, exec, active_workers, orch, procs, invocations,
                   ops, fs>>

\* ------------------------------------------------------------------ specifications
Drivers == {"ok", "fail", "fail_first", "any", "post_ok", "hang"}

Configs ==
    [driver : Drivers, n : 1..NumUnits, max_workers : 1..MaxWorkersBound,
     max_retries : 0..MaxRetriesBound, prompt : BOOLEAN, files : BOOLEAN,
            post_retries : {0, PostMaxRetries}]

\* the state after Orchestrator.create_job(cfg) succeeded
CreatedRows(c) ==
    /\ cfg = c
    /\ units = [i \in 1..c.n |-> NewWorkUnit(i, "item", c.max_retries)]
    /\ exec = [alive |-> FALSE, pid |-> NULL, pc |-> "none", job |-> NoJob,
               pending_units |-> <<>>, should_stop |-> FALSE, raised |-> FALSE,
               exitcode |-> <<>>]
    /\ active_workers = AllFree
    /\ orch = IdleOrch
    /\ hosts = IdleHosts
    /\ procs = {}
    /\ invocations = [i \in 1..(NumUnits + MaxPostUnits) |-> 0]
    /\ ops = [spawns |-> 0, crashes |-> 0, exec_kills |-> 0, unit_kills |-> 0,
              restarts |-> 0, tests |-> 0, calls |-> 0]

\* no table of the several-job database is looked at
NoDb == [work_units |-> <<>>, workers |-> <<>>, jobs |-> <<>>, returned |-> <<>>]

Created(c) == CreatedRows(c) /\ job = NewJob(c.n, c.max_workers, c.prompt) /\ db = NoDb

Executor == ExRecover \/ ExFetch \/ ExCheckActive \/ ExSubmit \/ ExDrain \/ ExFinal

Worker(s) ==
    \/ WkStart(s) \/ WkSpawn(s) \/ WkDriverReturn(s) \/ WkCallbackRead(s)
    \/ WkCallbackWrite(s) \/ WkFinalWrite(s) \/ WkRelease(s)

\* start_job(skip_test=True), repeated at will, and what the executor then does
Run == StartJob("none", TRUE) \/ Executor \/ \E s \in Slots : Worker(s)

\* Executor runs with a scripted driver; the executor may crash and be started again.
Init ==
    \E c \in Configs :
        c.driver \in {"ok", "fail", "fail_first"} /\ ~c.files
        /\ c.post_retries = PostMaxRetries /\ Created(c) /\ fs = NoDecision

Next == Run \/ ExCrash

Spec == Init /\ [][Next]_vars

\* Executor runs under kill_executor, with crashes and orphaned subprocesses.
InitKill ==
    \E c \in Configs :
        c.driver = "any" /\ ~c.prompt /\ ~c.files
        /\ c.post_retries = PostMaxRetries /\ Created(c) /\ fs = NoDecision

NextKill == Run \/ ExCrash \/ KillExecutor \/ OrphanExit

SpecKill == InitKill /\ [][NextKill]_vars

\* Executor runs under kill_work_unit, restart_work_unit and resume_job; the driver
\* reports output files.
InitUnit ==
    \E c \in Configs :
        c.driver \in {"ok", "any"} /\ ~c.prompt /\ c.files
        /\ c.post_retries = PostMaxRetries /\ Created(c) /\ fs = NoDecision

NextUnit ==
    \/ Run
    \/ ResumeJob
    \/ \E u \in DOMAIN units : KillWorkUnit(u)
    \/ \E u \in DOMAIN units : RestartWorkUnit(u)

SpecUnit == InitUnit /\ [][NextUnit]_vars

\* start_job with every argument: test phases, rejections, approval, then the run.
InitTest ==
    \E c \in Configs :
        c.driver = "any" /\ ~c.prompt /\ ~c.files
        /\ c.post_retries = PostMaxRetries /\ Created(c) /\ fs = NoDecision

NextTest ==
    \/ \E approve \in {"true", "false", "none"}, skip_test \in BOOLEAN :
            StartJob(approve, skip_test)
    \/ TestSpawn \/ TestFinish
    \/ Executor
    \/ \E s \in Slots : Worker(s)

SpecTest == InitTest /\ [][NextTest]_vars

\* _determine_final_status on every input of FinalInputs.
InitFinal ==
    /\ \E c \in Configs :
        /\ c.driver = "ok" /\ c.n = 1 /\ c.max_workers = 1 /\ c.max_retries = 0
        /\ ~c.prompt /\ ~c.files /\ c.post_retries = PostMaxRetries
        /\ Created(c)
    /\ fs \in FinalInputs

SpecFinal == InitFinal /\ [][DetermineFinalStatus]_vars

\* One executor run while hosts call kill_work_unit.
InitSlot ==
    \E c \in Configs :
        c.driver = "any" /\ c.max_retries = 0 /\ ~c.prompt /\ ~c.files
       
        /\ c.post_retries = PostMaxRetries /\ Created(c) /\ fs = NoDecision

NextSlot ==
    \/ Run
    \/ \E h \in Hosts, u \in DOMAIN units : KillUnitRead(h, u)
    \/ \E h \in Hosts : KillUnitSignal(h)
    \/ \E h \in Hosts : KillUnitWrite(h)

SpecSlot == InitSlot /\ [][NextSlot]_vars

\* start_job by one caller, resume_job and the restart endpoint by concurrent hosts.
InitHosts ==
    \E c \in Configs :
        c.driver = "ok" /\ c.max_retries = 0 /\ ~c.prompt /\ ~c.files
       
        /\ c.post_retries = PostMaxRetries /\ Created(c) /\ fs = NoDecision

NextHosts ==
    \/ Run
    \/ \E h \in Hosts : RestartJobReset(h)
    \/ \E h \in Hosts : ResumeCheck(h)
    \/ \E h \in Hosts : ResumeSpawn(h)
    \/ ExecutorExit

SpecHosts == InitHosts /\ [][NextHosts]_vars

\* start_job with every argument and its replies: test phases, rejections, approval,
\* the run with and without post-processing, calls on a finished job and on no job.
InitStart ==
    \E c \in Configs :
        c.driver = "any" /\ c.max_retries = 0 /\ ~c.files
        /\ c.post_retries = 0 /\ Created(c) /\ fs = NoDecision

NextStart ==
    \/ \E approve \in {"true", "false", "none"}, skip_test \in BOOLEAN :
          StartJobCall(approve, skip_test)
    \/ StartJobUnknown
    \/ TestSpawn \/ TestFinish
    \/ Executor
    \/ \E s \in Slots : Worker(s)

SpecStart == InitStart /\ [][NextStart]_vars

\* One executor run whose agent subprocesses all work or all hang; every thread and
\* process that can take a step eventually takes one.
InitHang ==
    \E c \in Configs :
        c.driver \in {"ok", "hang"} /\ ~c.prompt /\ ~c.files
       
        /\ c.post_retries = PostMaxRetries /\ Created(c) /\ fs = NoDecision

SpecHang ==
    /\ InitHang /\ [][Run]_vars
    /\ WF_vars(StartJob("none", TRUE))
    /\ WF_vars(Executor)
    /\ \A s \in Slots : WF_vars(Worker(s))

\* the single-job state is not looked at: a created job that nothing runs
NoRun ==
    \E c \in Configs :
        /\ c.driver = "ok" /\ c.n = 1 /\ c.max_workers = 1 /\ c.max_retries = 0
        /\ ~c.prompt /\ ~c.files /\ c.post_retries = PostMaxRetries
        /\ CreatedRows(c) /\ job = NewJob(c.n, c.max_workers, c.prompt)
        /\ fs = NoDecision

\* work_units rows as reset_stuck_units sees them: a worker_id with its assignment times,
\* or none
StuckUnitRows ==
    {[job_id |-> j, status |-> st, worker_id |-> w, assigned_at |-> w # NULL,
      started_at |-> w # NULL /\ st # "assigned"] :
        j \in JobIds, st \in UnitStatuses, w \in {NULL, 1}}

WorkerRows == [job_id : JobIds, status : WorkerStatuses]

\* reset_stuck_units and cleanup_stale_workers, called in any order on any job, over
\* every table of MaxRows rows.
InitStuck ==
    /\ NoRun
    /\ \/ \E wu \in [1..MaxRows -> StuckUnitRows] : db = [NoDb EXCEPT !.work_units = wu]
       \/ \E wk \in [1..MaxRows -> WorkerRows] : db = [NoDb EXCEPT !.workers = wk]

NextStuck ==
    \/ \E j \in JobIds : ResetStuckUnits(j)
    \/ \E j \in JobIds : CleanupStaleWorkers(j)

SpecStuck == InitStuck /\ [][NextStuck]_vars

\* create_job called MaxCalls times on an empty database, with every enumeration result
\* and every failing INSERT.
InitCreate == NoRun /\ db = NoDb

NextCreate ==
    \E enumeration \in Enumerations, items \in ItemLists,
       max_retries \in 0..MaxRetriesBound, job_saved \in BOOLEAN,
       locked \in SUBSET (1..NumUnits) :
        CreateJob(enumeration, items, max_retries, job_saved, locked)

SpecCreate == InitCreate /\ [][NextCreate]_vars

\* get_pending_units called with every job and limit on every work_units table of
\* MaxPendingRows rows, whatever their statuses, jobs and creation times.
PendingUnitRows == [job_id : JobIds, status : UnitStatuses, created_at : Times]

InitPending ==
    /\ NoRun
    /\ \E wu \in [1..MaxPendingRows -> PendingUnitRows] :
          db = [NoDb EXCEPT !.work_units =
                    [i \in 1..MaxPendingRows |->
                        [unit_id |-> i, job_id |-> wu[i].job_id, status |-> wu[i].status,
                         created_at |-> wu[i].created_at]]]

NextPending == \E j \in JobIds, limit \in 0..MaxPendingRows : GetPendingUnits(j, limit)

SpecPending == InitPending /\ [][NextPending]_vars

\* append_conversation_event called with every event on every unit, stored or not, of
\* every table of MaxRows rows whose conversations are NULL or one event long.
ConversationRows ==
    [status : UnitStatuses, conversation : {NullText} \cup {json_dumps(<<e>>) : e \in Events}]

InitAppend ==
    /\ NoRun
    /\ \E wu \in [1..MaxRows -> ConversationRows] : db = [NoDb EXCEPT !.work_units = wu]

NextAppend ==
    \E unit_id \in 1..(MaxRows + 1), event \in Events :
        AppendConversationEvent(unit_id, event)

SpecAppend == InitAppend /\ [][NextAppend]_vars

\* One executor run with a driver that returns from every invocation with either
\* outcome, nothing killed or restarted, every thread scheduled again and again.
InitTerm ==
    \E c \in Configs : c.driver = "any" /\ ~c.files /\ Created(c) /\ fs = NoDecision

SpecTerm ==
    /\ InitTerm /\ [][Run]_vars
    /\ WF_vars(Executor)
    /\ \A s \in Slots : WF_vars(Worker(s))

\* One executor run that stop_executor may signal at any moment, every thread scheduled
\* again and again.
InitStop ==
    \E c \in Configs :
        c.driver = "any" /\ c.max_retries = 0 /\ ~c.files /\ Created(c) /\ fs = NoDecision

SpecStop ==
    /\ InitStop /\ [][Run \/ StopExecutor]_vars
    /\ WF_vars(Executor)
    /\ \A s \in Slots : WF_vars(Worker(s))

\* A job stored with a post-processing prompt, with or without bypass_failures and with
\* metadata max_retries 0 or absent, run without a test phase by one executor.
InitPost ==
    \E c \in Configs, bypass \in BOOLEAN :
        /\ c.driver \in {"post_ok", "any"} /\ c.prompt /\ ~c.files
        /\ CreatedRows(c)
        /\ job = [NewJob(c.n, c.max_workers, c.prompt) EXCEPT !.bypass_failures = bypass]
        /\ fs = NoDecision /\ db = NoDb

SpecPost == InitPost /\ [][Run]_vars

\* start_job(skip_test) on a created job, the parent's recording of the pid running
\* beside the child it started.
InitDetach ==
    \E c \in Configs :
        c.driver = "any" /\ c.max_retries = 0 /\ ~c.prompt /\ ~c.files
        /\ c.post_retries = PostMaxRetries /\ Created(c) /\ fs = NoDecision

NextDetach ==
    \/ DetachStart \/ DetachRead \/ DetachWrite \/ ExGetJob \/ ExRecoverWrite
    \/ ExFetch \/ ExCheckActive \/ ExSubmit \/ ExDrain \/ ExFinal
    \/ \E s \in Slots : Worker(s)

SpecDetach == InitDetach /\ [][NextDetach]_vars

\* A test phase by one caller, start_job(approve=True) by another while it runs, then
\* the executor.
InitApprove ==
    \E c \in Configs :
        c.driver = "any" /\ c.max_retries = 0 /\ ~c.prompt /\ ~c.files
        /\ c.post_retries = PostMaxRetries /\ Created(c) /\ fs = NoDecision

NextApprove ==
    \/ \E approve \in {"true", "false", "none"} : StartJob(approve, FALSE)
    \/ StartJobDuringTest
    \/ TestSpawn \/ TestFinish
    \/ Executor
    \/ \E s \in Slots : Worker(s)

SpecApprove == InitApprove /\ [][NextApprove]_vars

\* One executor run in which submit_work_unit is also called while the pool is full.
InitPool ==
    \E c \in Configs :
        c.driver = "any" /\ c.max_retries = 0 /\ ~c.prompt /\ ~c.files
        /\ c.post_retries = PostMaxRetries /\ Created(c) /\ fs = NoDecision

NextPool == Run \/ TrySubmit

SpecPool == InitPool /\ [][NextPool]_vars

\* One executor run with the workers table, in which any call of the run loop may raise.
InitRaise ==
    \E c \in Configs :
        c.driver = "any" /\ ~c.prompt /\ ~c.files
        /\ c.post_retries = PostMaxRetries /\ Created(c) /\ fs = NoDecision

StartJobOnce == ops.spawns = 0 /\ StartJob("none", TRUE)

NextRaise ==
    \/ StartJobOnce
    \/ ExRecover \/ ExFetch \/ ExCheckActive \/ PoolSubmit \/ ExDrain \/ PoolFinal
    \/ ExRaise \/ ExStopPool \/ ExExcept
    \/ \E s \in Slots :
          \/ WkStart(s) \/ WkSpawn(s) \/ WkDriverReturn(s) \/ WkCallbackRead(s)
          \/ WkCallbackWrite(s) \/ WkFinalWrite(s) \/ PoolRelease(s)

SpecRaise == InitRaise /\ [][NextRaise]_vars

\* A job with a post-processing prompt and no retries, run by an executor, with the
\* dashboard's bypass and restart endpoints called at will; every thread of the executor
\* is scheduled again and again.
InitBypass ==
    \E c \in Configs :
        c.driver = "any" /\ c.max_retries = 0 /\ c.prompt /\ ~c.files
        /\ c.post_retries = PostMaxRetries /\ Created(c) /\ fs = NoDecision

NextBypass == StartJobOnce \/ Executor \/ (\E s \in Slots : Worker(s)) \/ BypassFailures \/ RestartJob

SpecBypass ==
    /\ InitBypass /\ [][NextBypass]_vars
    /\ WF_vars(Executor)
    /\ \A s \in Slots : WF_vars(Worker(s))

\* One executor run on one unit with automatic retries while hosts call kill_work_unit,
\* step by step, and restart_work_unit.
InitRetry ==
    \E c \in Configs :
        c.driver = "any" /\ c.n = 1 /\ c.max_retries = MaxRetriesBound /\ ~c.prompt
        /\ ~c.files /\ c.post_retries = PostMaxRetries /\ Created(c) /\ fs = NoDecision

NextRetry ==
    \/ Run
    \/ \E h \in Hosts, u \in DOMAIN units : KillUnitRead(h, u)
    \/ \E h \in Hosts : KillUnitSignal(h)
    \/ \E h \in Hosts : KillUnitWrite(h)
    \/ \E u \in DOMAIN units : RestartWorkUnit(u)

SpecRetry == InitRetry /\ [][NextRetry]_vars

\* kill_work_unit and restart_work_unit called with every job and every unit id, stored or
\* not, on every database of MaxJobs jobs and MaxRows units: units of either job in every
\* status, with or without a recorded process, alive or not.
ControlUnitRows == [job_id : JobIds, status : UnitStatuses, has_process : BOOLEAN]

InitControl ==
    /\ NoRun
    /\ \E wu \in [1..MaxRows -> ControlUnitRows], failed \in [JobIds -> 0..1] :
       \E pids \in SUBSET {i \in 1..MaxRows : wu[i].has_process} :
          db = [work_units |->
                    [i \in 1..MaxRows |->
                        [job_id |-> wu[i].job_id, status |-> wu[i].status,
                         error |-> wu[i].status = "failed",
                         process_id |-> IF wu[i].has_process THEN i ELSE NULL]],
                workers |-> <<>>,
                jobs |-> [j \in JobIds |->
                            [NewJobRow(j, MaxRows) EXCEPT !.failed_units = failed[j]]],
                pids |-> pids,
                returned |-> <<>>]

NextControl ==
    \/ \E job_id \in JobIds, unit_id \in 1..(MaxRows + 1) : RestartWorkUnitCall(job_id, unit_id)
    \/ \E job_id \in JobIds, unit_id \in 1..(MaxRows + 1) : KillWorkUnitCall(job_id, unit_id)

SpecControl == InitControl /\ [][NextControl]_vars

\* ------------------------------------------------------------------ properties
\* C1: in every reachable state of a job, whatever the interleaving of executor runs,
\* crashes and recoveries, completed_units + failed_units <= total_units.
C1_CountersWithinTotal == job.completed_units + job.failed_units <= job.total_units

\* C2: a job started with skip_test whose driver succeeds on every invocation, run by
\* one executor that is never interrupted, ends completed with completed_units = N,
\* failed_units = 0 and every unit completed, whatever the interleaving of the worker
\* threads' completion callbacks.
C2_HappyPath ==
    (cfg.driver = "ok" /\ ops.crashes = 0 /\ exec.pc = "exited") =>
        /\ job.status = "completed"
        /\ job.completed_units = cfg.n
        /\ job.failed_units = 0
        /\ \A u \in DOMAIN units : units[u].status = "completed"

\* C3: after an executor died and a new executor recovered the job, with a driver that
\* always succeeds, no unit is counted twice in completed_units (the count never
\* exceeds the number of units that were run), and once the new executor has run to
\* its end the job is completed, every unit is completed and completed_units =
\* total_units.
C3_CrashRecovery ==
    (cfg.driver = "ok" /\ ops.crashes > 0) =>
        /\ job.completed_units <= Cardinality({u \in 1..cfg.n : invocations[u] > 0})
        /\ exec.pc = "exited" =>
              /\ job.status = "completed"
              /\ job.completed_units = job.total_units
              /\ \A u \in DOMAIN units : units[u].status = "completed"

\* C4: with a driver that fails the first attempt of each unit and succeeds on the
\* second, and max_retries >= 1, an uninterrupted executor run ends with every unit
\* completed with retry_count = 1, the job completed, failed_units = 0 and
\* completed_units = total_units.
C4_RetryThenSuccess ==
    (cfg.driver = "fail_first" /\ cfg.max_retries >= 1 /\ ops.crashes = 0
        /\ exec.pc = "exited") =>
        /\ \A u \in 1..cfg.n : units[u].status = "completed" /\ units[u].retry_count = 1
        /\ job.status = "completed"
        /\ job.failed_units = 0
        /\ job.completed_units = job.total_units

\* C5: with a driver that fails every invocation and max_retries = r, an uninterrupted
\* executor run ends with every unit invoked exactly r + 1 times and failed with
\* retry_count = r, the job failed, failed_units = total_units and completed_units = 0.
C5_PermanentFailure ==
    (cfg.driver = "fail" /\ ops.crashes = 0 /\ exec.pc = "exited") =>
        /\ \A u \in 1..cfg.n :
              /\ invocations[u] = cfg.max_retries + 1
              /\ units[u].status = "failed"
              /\ units[u].retry_count = cfg.max_retries
        /\ job.status = "failed"
        /\ job.failed_units = job.total_units
        /\ job.completed_units = 0

\* C6: every kill_executor that returns success, whether it killed a live executor or
\* found the process already gone, leaves the job failed with killed_at set and no
\* unit of the job assigned or processing.
C6_KillExecutorClean ==
    [][KillExecutor =>
          /\ job'.status = "failed"
          /\ job'.killed_at
          /\ \A u \in DOMAIN units' : units'[u].status \notin {"assigned", "processing"}]_vars

\* C7: restart_work_unit on a failed unit leaves it pending with every per-attempt
\* field null (worker_id, assigned_at, started_at, completed_at, error, result,
\* execution time, output files, rendered prompt, conversation, session id, cost,
\* process_id) and retry_count unchanged; the job's failed_units becomes
\* max(0, failed_units - 1), completed_units and total_units are unchanged.
C7_RestartResetsUnit ==
    [][\A u \in DOMAIN units :
          RestartWorkUnit(u) =>
              /\ units'[u].status = "pending"
              /\ units'[u].worker_id = NULL /\ units'[u].process_id = NULL
              /\ ~units'[u].assigned_at /\ ~units'[u].started_at
              /\ ~units'[u].completed_at /\ ~units'[u].error /\ ~units'[u].result
              /\ ~units'[u].execution_time_seconds /\ ~units'[u].output_files
              /\ ~units'[u].rendered_prompt /\ ~units'[u].conversation
              /\ ~units'[u].session_id /\ ~units'[u].cost_usd
              /\ units'[u].retry_count = units[u].retry_count
              /\ job'.failed_units = Max(0, job.failed_units - 1)
              /\ job'.completed_units = job.completed_units
              /\ job'.total_units = job.total_units]_vars

\* C8: when kill_work_unit kills the live subprocess of a unit that a live executor is
\* processing, the subprocess is gone, the worker thread records the attempt as a
\* permanent failure (failed_units + 1, the unit written as failed), and a following
\* restart_work_unit decrements failed_units and returns the unit to pending with
\* retry_count unchanged.  With a driver that always succeeds, a failed attempt is
\* one whose subprocess was killed.
C8_KillThenRestart ==
    [][/\ \A u \in DOMAIN units :
            (KillWorkUnit(u) /\ kill_work_unit_result(u) = "killed") =>
                <<u, units[u].process_id>> \notin procs'
       /\ \A s \in Slots :
            (cfg.driver = "ok" /\ WkCallbackWrite(s) /\ ~active_workers[s].success) =>
                /\ job'.failed_units = job.failed_units + 1
                /\ active_workers'[s].work_unit.status = "failed"
       /\ \A s \in Slots :
            (cfg.driver = "ok" /\ WkFinalWrite(s) /\ ~active_workers[s].success) =>
                units'[active_workers[s].work_unit.unit_id].status = "failed"
       /\ \A u \in DOMAIN units :
            (cfg.driver = "ok" /\ RestartWorkUnit(u) /\ job.failed_units > 0) =>
                /\ job'.failed_units = job.failed_units - 1
                /\ units'[u].status = "pending"
                /\ units'[u].retry_count = units[u].retry_count]_vars

\* C9: whenever a test phase ends with success, whatever start_job calls came before
\* (earlier test phases and rejections included), exactly one unit of the job is
\* completed, completed_units = 1 and total_units is what create_job set.
C9_TestPhaseOneCompleted ==
    [][(TestFinish /\ job'.test_passed) =>
          /\ Cardinality({u \in DOMAIN units' : units'[u].status = "completed"}) = 1
          /\ job'.completed_units = 1
          /\ job'.total_units = cfg.n]_vars

\* The decision table of the final status, first row first.
FinalStatusTable(d) ==
    << [when |-> d.post_status = "failed", status |-> "failed"],
       [when |-> d.completed = d.total /\ (~d.prompt \/ d.post_status = "completed"),
        status |-> "completed"],
       [when |-> d.bypass /\ d.post_status = "completed", status |-> "completed"],
       [when |-> d.failed > 0 /\ d.completed + d.failed = d.total, status |-> "failed"],
       [when |-> TRUE, status |-> "paused"] >>

FirstMatchingRow(table) ==
    table[CHOOSE i \in DOMAIN table :
            table[i].when /\ \A k \in 1..(i - 1) : ~table[k].when]

\* C10: the final status is decided by (completed_units, failed_units, total_units,
\* bypass_failures, post-processing prompt set, post-processing unit's status) alone
\* and is the status of the first matching row of the table: failed if the
\* post-processing unit is failed; completed if all units succeeded and there is no
\* post-processing prompt or post-processing completed; completed if bypass_failures
\* and post-processing completed; failed if failed_units > 0 and all units are done;
\* otherwise paused.
C10_FinalStatusTable ==
    fs.status # "none" => fs.status = FirstMatchingRow(FinalStatusTable(fs)).status

\* a decision taken by the bypass_failures row: units failed, post-processing completed
C10_BypassRowDecides ==
    /\ fs.status = "completed"
    /\ fs.bypass /\ fs.post_status = "completed"
    /\ fs.failed > 0 /\ fs.completed + fs.failed = fs.total

\* C11: bypass with post-processing.  When the executor ends a run in which the regular
\* units were all terminal with at least one permanent failure, bypass_failures and the
\* post-processing prompt are set and the driver succeeds on the post-processing unit,
\* then there is one unit of type post_processing, it is completed, the job ends
\* completed, and completed_units and failed_units are those read when the pool drained.
C11_BypassPostProcessing ==
    [][(/\ ExFinal
        /\ exec.job.bypass_failures /\ exec.job.post_processing_prompt
        /\ exec.job.failed_units > 0
        /\ \A i \in 1..cfg.n : units[i].status \in {"completed", "failed"}
        /\ \E i \in 1..cfg.n : units[i].status = "failed"
        /\ cfg.driver = "post_ok")
       => (/\ Len(units) = cfg.n + 1
           /\ units'[cfg.n + 1].unit_type = "post_processing"
           /\ units'[cfg.n + 1].status = "completed"
           /\ job'.post_processing_unit_id = cfg.n + 1
           /\ job'.status = "completed"
           /\ job'.completed_units = exec.job.completed_units
           /\ job'.failed_units = exec.job.failed_units)]_vars

\* the units the repository shows as held by a worker
InFlight == {i \in DOMAIN units : units[i].status \in {"assigned", "processing"}}

\* C12: with max_workers = 1, at no time are two units of the job assigned or
\* processing in the repository at once.
C12_OneUnitInFlight == cfg.max_workers = 1 => Cardinality(InFlight) <= 1

\* C13: at most one executor process of the job is alive at any time, for every
\* interleaving of start_job, resume_job and restart calls by concurrent hosts.
C13_OneLiveExecutor == Cardinality(LiveExecutors) <= 1

\* the slots whose worker thread holds a post-processing unit
PostSlots == {s \in Slots : active_workers[s].work_unit.unit_type = "post_processing"}

ExecutorSpawned ==
    /\ ops'.spawns = ops.spawns + 1
    /\ exec'.alive /\ ~exec.alive
    /\ job'.status = "running" /\ job'.executor_pid = exec'.pid

\* a start_job step has begun the test phase on a unit of the job
TestPhaseBegun ==
    /\ job'.status = "testing"
    /\ job'.test_unit_id \in 1..cfg.n
    /\ units'[job'.test_unit_id].status = "processing"
    /\ ops'.spawns = ops.spawns /\ exec' = exec

\* what the claim says of a start_job step, by stored status and arguments; with
\* if_pending the test phase is only required of a job that has a pending unit, and
\* without one the call is an error that changes nothing
StartJobTable(approve, skip_test, if_pending) ==
    CASE job.status = "created" ->
              IF skip_test THEN ExecutorSpawned
              ELSE IF if_pending /\ get_pending_units(units, 1) = <<>>
              THEN hosts'.reply = "error_no_pending_units" /\ UNCHANGED rows
              ELSE TestPhaseBegun
         [] job.status = "testing" ->
              IF approve = "true" THEN ExecutorSpawned
              ELSE IF approve = "false"
              THEN /\ job' = [job EXCEPT !.status = "created", !.test_passed = FALSE]
                   /\ ops'.spawns = ops.spawns /\ exec' = exec /\ units' = units
              ELSE hosts'.reply = "test_results" /\ UNCHANGED rows
         [] job.status = "running" ->
              IF exec.alive /\ exec.pid = job.executor_pid
              THEN hosts'.reply = "running" /\ UNCHANGED rows
              ELSE ExecutorSpawned
         [] OTHER -> TRUE

\* C15: start_job is a function of the stored status and its arguments.  created: the
\* test phase (testing, test_unit_id set), or with skip_test the executor (running);
\* testing: approve=true starts the executor, approve=false resets to created with
\* test_passed false, no approve returns the stored test results and changes nothing;
\* running: already running if the executor is alive, else a fresh executor.  No
\* executor is spawned from testing without approve=true.  As the claim states it.
C15_StartJobByStatus ==
    [][\A approve \in {"true", "false", "none"}, skip_test \in BOOLEAN :
          StartJobCall(approve, skip_test) => StartJobTable(approve, skip_test, FALSE)]_vars

\* The same table, where a created job with no pending unit left (its only unit was
\* the test unit of a rejected test) gets an error and no test phase.
C15_StartJobByStatusIfPending ==
    [][\A approve \in {"true", "false", "none"}, skip_test \in BOOLEAN :
          StartJobCall(approve, skip_test) => StartJobTable(approve, skip_test, TRUE)]_vars

\* C16: start_job with an unknown job id, or on a job whose status is completed, failed,
\* paused or post_processing, returns an error, changes no row and spawns no executor.
C16_StartJobRejected ==
    [][/\ StartJobUnknown => hosts'.reply = "error_not_found" /\ UNCHANGED rows
       /\ \A approve \in {"true", "false", "none"}, skip_test \in BOOLEAN :
            (/\ StartJobCall(approve, skip_test)
             /\ job.status \in {"completed", "failed", "paused", "post_processing"})
            => hosts'.reply = "error_status" /\ UNCHANGED rows]_vars

\* start_job has been refused on a paused job whose executor has ended
C16_PausedJobRefused ==
    /\ job.status = "paused"
    /\ ~exec.alive /\ ops.spawns < MaxExecutors
    /\ hosts.reply = "error_status"

\* C17: every unit whose status is assigned or processing has a worker_id, whether the
\* pool dispatched it or the orchestrator's test phase runs it.
C17_InFlightHasWorker == \A i \in InFlight : units[i].worker_id # NULL

\* the other worker threads that hold the unit of slot s
OtherHolders(s) ==
    {t \in Slots \ {s} : /\ active_workers[t].pc # "free"
                         /\ active_workers[t].work_unit.unit_id =
                                active_workers[s].work_unit.unit_id}

\* C18: the writes of one attempt land in the order assigned, processing, terminal
\* (completed, failed, or pending on retry), the process-id write between processing and
\* terminal, and no write of an attempt lands once a later attempt of the same unit has
\* been assigned.
C18_AttemptWritesInOrder ==
    [][\A s \in Slots :
          LET id == active_workers[s].work_unit.unit_id
          IN  /\ WkStart(s) => units[id].status = "assigned"
              /\ WkSpawn(s) => units[id].status = "processing"
              /\ (WkCallbackWrite(s) /\ units' # units) => units[id].status = "processing"
              /\ WkFinalWrite(s) =>
                    /\ units[id].status \in {"processing", "pending"}
                    /\ OtherHolders(s) = {}]_vars

\* C19: every driver invocation returns within its timeout, so no unit stays processing
\* forever because its subprocess hangs: a processing unit eventually is not processing.
C19_NoUnitProcessingForever ==
    \A i \in 1..NumUnits :
        (i \in DOMAIN units /\ units[i].status = "processing")
            ~> (i \in DOMAIN units /\ units[i].status # "processing")

\* C20: whenever an executor sets the job's final status to paused, at least one unit
\* of the job is pending.
C20_PausedHasPendingUnit ==
    [][(ExFinal /\ job'.status = "paused")
       => \E i \in DOMAIN units : units[i].status = "pending"]_vars

\* C21: reset_stuck_units(j) twice in a row leaves the rows the first call left and
\* returns 0 the second time, and likewise cleanup_stale_workers(j); a call changes only
\* rows of job j that are assigned/processing (busy/idle), and no row of another job.
C21_RecoveryCallsIdempotent ==
    [][\A j \in JobIds :
          /\ ResetStuckUnits(j) =>
                /\ db'.workers = db.workers
                /\ DOMAIN db'.work_units = DOMAIN db.work_units
                /\ \A i \in DOMAIN db.work_units :
                      \/ db'.work_units[i] = db.work_units[i]
                      \/ /\ db.work_units[i].job_id = j
                         /\ db.work_units[i].status \in {"assigned", "processing"}
                /\ db'.returned[4] > 1 =>
                      db'.work_units = db.work_units /\ db'.returned[3] = 0
          /\ CleanupStaleWorkers(j) =>
                /\ db'.work_units = db.work_units
                /\ DOMAIN db'.workers = DOMAIN db.workers
                /\ \A i \in DOMAIN db.workers :
                      \/ db'.workers[i] = db.workers[i]
                      \/ /\ db.workers[i].job_id = j
                         /\ db.workers[i].status \in {"busy", "idle"}
                /\ db'.returned[4] > 1 =>
                      db'.workers = db.workers /\ db'.returned[3] = 0]_vars

\* reset_stuck_units(1) was called twice in a row on a table where it had a unit to reset
\* and a stuck unit of job 2 to leave alone
C21_SecondResetDone ==
    /\ db.returned = <<"reset_stuck_units", 1, 0, 2>>
    /\ \E i \in DOMAIN db.work_units :
          /\ db.work_units[i].job_id = 1 /\ db.work_units[i].status = "pending"
          /\ db.work_units[i].worker_id = NULL
    /\ \E i \in DOMAIN db.work_units :
          db.work_units[i].job_id = 2 /\ db.work_units[i].status = "processing"

\* C22: a call of create_job either replies with an error and leaves the jobs and
\* work_units tables as they were, or replies with success and has added exactly one job
\* (status created, completed_units = failed_units = 0, total_units = N) and exactly N
\* units of that job, all pending with retry_count 0.
UnitsOfJob(table, job_id) == {i \in DOMAIN table : table[i].job_id = job_id}

C22_CreateJobAllOrNothing ==
    [][ops'.calls # ops.calls =>
        LET r == db'.returned
        IN  \/ /\ r[3] = "error"
               /\ db'.jobs = db.jobs /\ db'.work_units = db.work_units
            \/ /\ r[3] = "success"
               /\ db'.jobs = Append(db.jobs, NewJobRow(r[2], r[4]))
               /\ \A i \in DOMAIN db.work_units : db'.work_units[i] = db.work_units[i]
               /\ UnitsOfJob(db'.work_units, r[2]) =
                      DOMAIN db'.work_units \ DOMAIN db.work_units
               /\ Cardinality(UnitsOfJob(db'.work_units, r[2])) = r[4]
               /\ \A i \in UnitsOfJob(db'.work_units, r[2]) :
                      db'.work_units[i].status = "pending"
                      /\ db'.work_units[i].retry_count = 0]_vars

\* C23: get_pending_units(j, n) returns at most n units, each a stored unit of job j in
\* status pending, no unit twice, in ascending created_at order, and no pending unit of j
\* that it leaves out is older than one it returns; it leaves none out unless it returns n.
C23_OldestPendingUnits ==
    db.returned # <<>> /\ db.returned[1] = "get_pending_units" =>
        LET j == db.returned[2]
            list == db.returned[3]
            n == db.returned[4]
            left == {i \in PendingRowsOfJob(db.work_units, j) :
                        \A k \in DOMAIN list : list[k].unit_id # i}
        IN  /\ Len(list) <= n
            /\ \A k \in DOMAIN list :
                  /\ list[k].unit_id \in DOMAIN db.work_units
                  /\ list[k] = db.work_units[list[k].unit_id]
                  /\ list[k].job_id = j /\ list[k].status = "pending"
            /\ \A a, b \in DOMAIN list :
                  a < b => list[a].unit_id # list[b].unit_id
                           /\ list[a].created_at <= list[b].created_at
            /\ \A i \in left, k \in DOMAIN list :
                  list[k].created_at <= db.work_units[i].created_at
            /\ left # {} => Len(list) = n

\* get_pending_units(1, 2) on three pending units of job 1 whose creation order is not
\* their rowid order returned the two oldest and left out the newest, the first row
C23_TwoOldestOfThree ==
    /\ db.returned # <<>> /\ db.returned[1] = "get_pending_units"
    /\ db.returned[2] = 1 /\ db.returned[4] = 2
    /\ Len(db.work_units) >= 3
    /\ \A i \in 1..3 : db.work_units[i].job_id = 1 /\ db.work_units[i].status = "pending"
    /\ db.work_units[1].created_at > db.work_units[3].created_at
    /\ db.work_units[3].created_at > db.work_units[2].created_at
    /\ db.returned[3] = <<db.work_units[2], db.work_units[3]>>

Holders(id) ==
    {t \in Slots : /\ active_workers[t].pc \notin {"free", "release"}
                   /\ active_workers[t].work_unit.unit_id = id}

\* C25: in an executor with max_workers >= 2 the dispatch loop never submits a unit that
\* a worker thread still holds, so no unit is with two workers at once, also not after the
\* failure callback has written it back as pending for a retry.
C25_HeldUnitNotSubmitted ==
    [][(cfg.max_workers >= 2 /\ ExSubmit) =>
          /\ Holders(Head(exec.pending_units).unit_id) = {}
          /\ \A i \in DOMAIN units : Cardinality(Holders(i)') <= 1]_vars

\* C26: the executor creates and submits the post-processing unit only for a job with a
\* post-processing prompt whose counters say completed_units = total_units, or
\* bypass_failures and completed_units + failed_units = total_units, and only when no
\* regular unit is pending, assigned or processing.
C26_PostProcessingAfterAllUnits ==
    [][(ExDrain /\ Len(units') > Len(units)) =>
          /\ job.post_processing_prompt
          /\ \/ job.completed_units = job.total_units
             \/ job.bypass_failures
                /\ job.completed_units + job.failed_units = job.total_units
          /\ \A i \in 1..cfg.n :
                units[i].status \notin {"pending", "assigned", "processing"}]_vars

\* C27: when the driver invocation of the post-processing unit has failed, the failure
\* callback leaves the unit's row and retry_count alone rather than writing it back as
\* pending, and the executor then finds the unit failed and stores the job as failed.
C27_PostUnitNeverRetried ==
    [][/\ \A s \in PostSlots :
             (WkCallbackWrite(s) /\ ~active_workers[s].success) =>
                 /\ units' = units
                 /\ active_workers'[s].work_unit.status = "failed"
       /\ (ExFinal /\ Len(units) > cfg.n /\ units[cfg.n + 1].error) =>
             units[cfg.n + 1].status = "failed" /\ job'.status = "failed"]_vars

\* C28: with a driver that returns from every invocation and nothing killed or restarted,
\* every executor run ends: a live executor eventually has exited, with no worker thread
\* left and the job stored as completed, failed or paused.
C28_ExecutorRunTerminates ==
    exec.alive ~> (/\ exec.pc = "exited" /\ get_active_worker_count = 0
                   /\ job.status \in {"completed", "failed", "paused"})

\* an executor has exited after a failed first attempt, a retry and a post-processing
\* unit: four driver invocations for two units
C28_ExitedAfterRetryAndPost ==
    /\ exec.pc = "exited" /\ get_active_worker_count = 0
    /\ cfg.n = 2 /\ Len(units) = 3
    /\ invocations[1] = 2 /\ invocations[2] = 1 /\ invocations[3] = 1
    /\ job.status = "completed"

\* C29: once should_stop is set the executor hands no further unit to a worker and
\* creates none, and a pending unit stays pending.
C29_NoUnitStartedAfterStop ==
    [][(exec.alive /\ exec.should_stop) =>
          /\ \A s \in Slots : active_workers[s].pc = "free" => active_workers'[s].pc = "free"
          /\ Len(units') = Len(units)
          /\ \A i \in DOMAIN units :
                units[i].status = "pending" => units'[i].status = "pending"]_vars

\* C30: a unit whose stored status is completed keeps that status in every later step,
\* whatever a kill_work_unit call, a worker thread or the executor does meanwhile.
C30_CompletedIsFinal ==
    [][\A i \in DOMAIN units :
          units[i].status = "completed" => units'[i].status = "completed"]_vars

\* C31: once start_detached has returned, and while the child executor runs, the job's
\* executor_pid is the child's pid; the parent's write of the pid changes no other column
\* of the job row, and no write of the child changes executor_pid.
C31_ExecutorPidRecorded ==
    [][/\ (exec'.alive /\ orch'.pc = "idle" /\ ops'.spawns > 0) =>
              job'.executor_pid = exec'.pid
       /\ DetachWrite => job' = [job EXCEPT !.executor_pid = orch.pid]
       /\ (ExRecoverWrite \/ \E s \in Slots : WkCallbackWrite(s)) =>
              job'.executor_pid = job.executor_pid]_vars

\* C32: once an executor has been started for the job, its stored status is neither
\* testing nor created, and no worker thread of the executor holds the unit that a test
\* phase in progress is running.
C32_TestPhaseAndExecutorApart ==
    /\ ops.spawns > 0 => job.status \notin {"testing", "created"}
    /\ orch.pc # "idle" =>
          \A s \in Slots : active_workers[s].pc # "free" =>
              active_workers[s].work_unit.unit_id # orch.test_unit.unit_id

\* C33: when kill_executor has killed a live executor, no agent subprocess that the
\* executor's workers had started is still running, and no worker starts a subprocess for
\* a unit while an earlier subprocess of that unit is alive.
C33_KillLeavesNoSubprocess ==
    [][/\ (KillExecutor /\ kill_executor_result = "killed") => procs' = {}
       /\ \A s \in Slots :
             WkSpawn(s) =>
                 \A p \in procs : p[1] # active_workers[s].work_unit.unit_id]_vars

\* C34: while an executor runs, its pool never holds more than max_workers workers, so
\* never more than max_workers agent subprocesses run for it at once; submit_work_unit on
\* a full pool returns false and changes no unit and no worker of the pool.
C34_PoolWithinMaxWorkers ==
    [][/\ exec'.alive =>
             Cardinality({s \in Slots : active_workers'[s].pc # "free"}) <= job'.max_workers
       /\ (TrySubmit /\ Cardinality({s \in Slots : active_workers[s].pc # "free"})
                            >= job.max_workers) =>
             /\ hosts'.reply = "pool_full"
             /\ units' = units /\ active_workers' = active_workers]_vars

\* submit_work_unit has returned false on a pool of one worker whose subprocess is
\* running, while the second unit was waiting as pending
C34_RefusedOnFullPool ==
    /\ hosts.reply = "pool_full" /\ exec.alive /\ exec.pc = "submit"
    /\ job.max_workers = 1
    /\ Cardinality({s \in Slots : active_workers[s].pc = "running"}) = 1
    /\ Cardinality({s \in Slots : active_workers[s].pc # "free"}) = 1
    /\ Head(exec.pending_units).unit_id = 2 /\ units[2].status = "pending"

\* C35: once WorkerPool.stop() has returned, no worker thread of the pool is left, no agent
\* subprocess runs, and every worker row the pool created has status terminated.
C35_StoppedPoolWorkersTerminated ==
    (exec.pc \in {"except", "exited"} /\ exec.job # NoJob) =>
        /\ ActiveSlots = {} /\ procs = {}
        /\ \A i \in DOMAIN db.workers : db.workers[i].status = "terminated"

\* C36: an executor whose run loop raised has ended with the job failed, executor_error
\* recorded, and a non-zero exit code.
C36_RaisedExecutorExitsNonZero ==
    (exec.raised /\ exec.pc = "exited") =>
        /\ job.status = "failed" /\ job.executor_error
        /\ exec.exitcode # <<>> /\ exec.exitcode # <<0>>

\* the regular units of the job
RegularUnits == {i \in DOMAIN units : units[i].unit_type = "item"}

\* C37: once the restart endpoint has answered a call made after a successful bypass and
\* with no executor running, on a job with a post-processing prompt whose regular units are
\* all completed or failed with at least one failed, an executor eventually runs the
\* post-processing unit: the unit exists and the driver has been invoked for it.
C37_RestartAfterBypassRunsPostProcessing ==
    (/\ job.post_processing_prompt /\ job.bypass_failures
     /\ hosts.reply \in {"NO_PENDING_UNITS", "restarted"}
     /\ \A i \in RegularUnits : units[i].status \in {"completed", "failed"}
     /\ \E i \in RegularUnits : units[i].status = "failed")
    ~> (/\ job.post_processing_unit_id \in DOMAIN units
        /\ invocations[job.post_processing_unit_id] > 0)

\* C38: in every step, no unit's stored retry_count decreases, and none exceeds the unit's
\* max_retries; a retry written by the failure callback adds exactly one, and
\* restart_work_unit leaves it as it was.
C38_RetryCountMonotone ==
    [][\A u \in DOMAIN units :
          /\ units'[u].retry_count >= units[u].retry_count
          /\ units'[u].retry_count <= units'[u].max_retries
          /\ RestartWorkUnit(u) => units'[u].retry_count = units[u].retry_count
          /\ units'[u].retry_count > units[u].retry_count =>
                units'[u].retry_count = units[u].retry_count + 1]_vars

\* C39: whenever no executor is alive, no test phase is under way and no host is inside a
\* control call, completed_units is the number of regular units stored as completed and
\* failed_units the number stored as failed.
C39_CountersMatchUnitsAtRest ==
    (/\ ~exec.alive /\ hosts.executors = {} /\ ActiveSlots = {}
     /\ orch.pc = "idle"
     /\ \A h \in Hosts : hosts.calls[h].pc = "idle") =>
        /\ job.completed_units =
              Cardinality({i \in RegularUnits : units[i].status = "completed"})
        /\ job.failed_units =
              Cardinality({i \in RegularUnits : units[i].status = "failed"})

\* C40: restart_work_unit on an unknown unit, a unit of another job or a unit that is not
\* failed, and kill_work_unit on an unknown unit, a unit of another job or a unit with no
\* process_id, return an error and leave every unit row, every job row and every process
\* as they were.
C40_RefusedControlChangesNothing ==
    [][\A job_id \in JobIds, unit_id \in 1..(MaxRows + 1) :
          /\ (/\ RestartWorkUnitCall(job_id, unit_id)
              /\ \/ unit_id \notin DOMAIN db.work_units
                 \/ db.work_units[unit_id].job_id # job_id
                 \/ db.work_units[unit_id].status # "failed")
             => (/\ ~db'.returned[3].success
                 /\ db'.work_units = db.work_units /\ db'.jobs = db.jobs
                 /\ db'.pids = db.pids)
          /\ (/\ KillWorkUnitCall(job_id, unit_id)
              /\ \/ unit_id \notin DOMAIN db.work_units
                 \/ db.work_units[unit_id].job_id # job_id
                 \/ db.work_units[unit_id].process_id = NULL)
             => (/\ ~db'.returned[3].success
                 /\ db'.work_units = db.work_units /\ db'.jobs = db.jobs
                 /\ db'.pids = db.pids)]_vars

\* restart_work_unit has just refused a completed unit of the job it was called with, whose
\* job row counts a failed unit
C40_RestartRefusedOnCompleted ==
    /\ db.returned # <<>> /\ db.returned[1] = "restart_work_unit"
    /\ ~db.returned[3].success
    /\ db.returned[3].unit_id \in DOMAIN db.work_units
    /\ db.work_units[db.returned[3].unit_id].job_id = db.returned[2]
    /\ db.work_units[db.returned[3].unit_id].status = "completed"
    /\ db.jobs[db.returned[2]].failed_units = 1

=============================================================================
